---- MODULE Spec2Model ----
(***************************************************************************)
(* The return-distribution and volatility-triggered trading-simulation     *)
(* engine of the stock dashboard (src/components/StockDashboard.tsx),      *)
(* together with the React state that drives its recomputation.            *)
(*                                                                         *)
(* Numbers.  The component computes on IEEE-754 doubles.  The model        *)
(* computes the same expressions exactly:                                  *)
(*   - a percentage is held as an integer or a fraction in units of        *)
(*     100/PriceLcm percent, so every daily change is an integer;          *)
(*   - a standard deviation is held as the fraction under its square root  *)
(*     (a Surd), and compared through squares;                             *)
(*   - money and share counts are reduced fractions (Rat);                 *)
(*   - products that exceed 32 bits are computed on decimal limbs (Big).   *)
(* Rounding.  Two effects of the doubles' rounding error are modelled:     *)
(*   - the sign of the loop variable of the bin initialisation when it     *)
(*     passes zero decides the key "-0.0" or "0.0" (NegativeAtZero);       *)
(*   - a comparison of two values that are equal as real numbers (a tie)   *)
(*     is decided by the rounding error unless doubles hold the values     *)
(*     exactly; the input families leave such histories out (Tied).        *)
(* On every input of the families the bins, counts and zones of the model  *)
(* are those an IEEE-754 replay of the component computes.                 *)
(***************************************************************************)
EXTENDS Integers, Sequences, FiniteSets, TLC

(***************************************************************************)
(* Natural numbers of any size: little-endian sequences of limbs in base   *)
(* LimbBase, without leading zero limbs (the empty sequence is zero).      *)
(***************************************************************************)
LimbBase == 100 * 100

RECURSIVE NatOf(_)
NatOf(n) == IF n = 0 THEN << >> ELSE <<n % LimbBase>> \o NatOf(n \div LimbBase)

RECURSIVE Trim(_)
Trim(a) ==
    IF a = << >> THEN << >>
    ELSE IF a[Len(a)] = 0 THEN Trim(SubSeq(a, 1, Len(a) - 1)) ELSE a

RECURSIVE AddC(_, _, _)
AddC(a, b, c) ==
    IF a = << >> /\ b = << >> THEN (IF c = 0 THEN << >> ELSE <<c>>)
    ELSE LET x == IF a = << >> THEN 0 ELSE Head(a)
             y == IF b = << >> THEN 0 ELSE Head(b)
             s == x + y + c
         IN  <<s % LimbBase>> \o AddC(IF a = << >> THEN << >> ELSE Tail(a),
                                      IF b = << >> THEN << >> ELSE Tail(b),
                                      s \div LimbBase)

NatAdd(a, b) == AddC(a, b, 0)

\* a - b for a >= b
RECURSIVE SubB(_, _, _)
SubB(a, b, c) ==
    IF a = << >> THEN << >>
    ELSE LET y == IF b = << >> THEN 0 ELSE Head(b)
             s == Head(a) - y - c
         IN  <<s % LimbBase>> \o SubB(Tail(a),
                                      IF b = << >> THEN << >> ELSE Tail(b),
                                      IF s < 0 THEN 1 ELSE 0)

NatSub(a, b) == Trim(SubB(a, b, 0))

RECURSIVE MulLimb(_, _, _)
MulLimb(a, d, c) ==
    IF a = << >> THEN (IF c = 0 THEN << >> ELSE <<c>>)
    ELSE LET s == Head(a) * d + c
         IN  <<s % LimbBase>> \o MulLimb(Tail(a), d, s \div LimbBase)

RECURSIVE NatMul(_, _)
NatMul(a, b) ==
    IF a = << >> \/ b = << >> THEN << >>
    ELSE NatAdd(Trim(MulLimb(a, Head(b), 0)),
                LET r == NatMul(a, Tail(b)) IN IF r = << >> THEN << >> ELSE <<0>> \o r)

\* -1, 0, 1 as a < b, a = b, a > b
RECURSIVE CmpTop(_, _, _)
CmpTop(a, b, i) ==
    IF i = 0 THEN 0
    ELSE IF a[i] < b[i] THEN -1
    ELSE IF a[i] > b[i] THEN 1
    ELSE CmpTop(a, b, i - 1)

NatCmp(a, b) ==
    IF Len(a) < Len(b) THEN -1
    ELSE IF Len(a) > Len(b) THEN 1
    ELSE CmpTop(a, b, Len(a))

(***************************************************************************)
(* Integers of any size: a sign and a magnitude.                           *)
(***************************************************************************)
Abs(n) == IF n < 0 THEN -n ELSE n

Big(n) == [neg |-> n < 0, mag |-> NatOf(Abs(n))]

BigNorm(neg, mag) == [neg |-> neg /\ mag # << >>, mag |-> mag]

BigNeg(x) == BigNorm(~x.neg, x.mag)

BigAdd(x, y) ==
    IF x.neg = y.neg THEN BigNorm(x.neg, NatAdd(x.mag, y.mag))
    ELSE IF NatCmp(x.mag, y.mag) >= 0 THEN BigNorm(x.neg, NatSub(x.mag, y.mag))
    ELSE BigNorm(y.neg, NatSub(y.mag, x.mag))

BigSub(x, y) == BigAdd(x, BigNeg(y))

BigMul(x, y) == BigNorm(x.neg # y.neg, NatMul(x.mag, y.mag))

BigCmp(x, y) ==
    IF x.neg /\ ~y.neg THEN -1
    ELSE IF ~x.neg /\ y.neg THEN 1
    ELSE IF x.neg THEN NatCmp(y.mag, x.mag)
    ELSE NatCmp(x.mag, y.mag)

BigLeq(x, y) == BigCmp(x, y) <= 0

BigSq(x) == BigMul(x, x)

(***************************************************************************)
(* Fractions of 32-bit integers, reduced, with a positive denominator:     *)
(* prices, share counts, money, and the mean of the daily changes.         *)
(***************************************************************************)
RECURSIVE GCD(_, _)
GCD(a, b) == IF b = 0 THEN a ELSE GCD(b, a % b)

\* n / d in lowest terms; n / 0 is Infinity (1/0), -Infinity (-1/0) or NaN (0/0)
Rat(n, d) ==
    IF d = 0 THEN [num |-> IF n > 0 THEN 1 ELSE IF n < 0 THEN -1 ELSE 0, den |-> 0]
    ELSE LET g == GCD(Abs(n), Abs(d))
             s == IF d < 0 THEN -1 ELSE 1
         IN  [num |-> s * (n \div g), den |-> s * (d \div g)]

RInt(n) == [num |-> n, den |-> 1]

RAdd(x, y) ==
    LET g == GCD(x.den, y.den)
    IN  Rat(x.num * (y.den \div g) + y.num * (x.den \div g), (x.den \div g) * y.den)

RNeg(x) == [num |-> -x.num, den |-> x.den]

RSub(x, y) == RAdd(x, RNeg(y))

RMul(x, y) ==
    LET a == Rat(x.num, y.den)
        b == Rat(y.num, x.den)
    IN  [num |-> a.num * b.num, den |-> a.den * b.den]

RDiv(x, y) == RMul(x, Rat(y.den, y.num))

RPos(x) == x.num > 0

(***************************************************************************)
(* A standard deviation: the square root of the fraction num/den, with num *)
(* a natural number of any size.  Math.sqrt is never evaluated; a          *)
(* comparison against a standard deviation is decided on the squares.      *)
(***************************************************************************)
Surd(num, den) == [num |-> num, den |-> den]

SurdZero == Surd(Big(0), 1)

\* sd === 0, the only falsy value a standard deviation takes
SurdIsZero(sd) == sd.num.mag = << >>

\* A <= B * sqrt(sd.num / sd.den), for A of any size and B a 32-bit integer
LeqSurd(A, B, sd) ==
    LET lhs == BigMul(BigSq(A), Big(sd.den))
        rhs == BigMul(BigSq(Big(B)), sd.num)
    IN  IF B >= 0
        THEN A.neg \/ A.mag = << >> \/ BigLeq(lhs, rhs)
        ELSE (A.neg \/ A.mag = << >>) /\ BigLeq(rhs, lhs)

\* x <= k * sd and x >= k * sd, for a fraction x and an integer k
RatLeqSurd(x, k, sd) == LeqSurd(Big(x.num), k * x.den, sd)

RatGeqSurd(x, k, sd) == LeqSurd(Big(-x.num), -(k * x.den), sd)

(***************************************************************************)
(* Input universe.  Every close that has a successor in a history is one  *)
(* of Closes; PriceLcm is their least common multiple, so                  *)
(* (close - prev) * PriceLcm / prev is an integer.  The last close of a    *)
(* history may be any price.                                               *)
(***************************************************************************)
Closes == {99, 100, 101}

RECURSIVE SetLcm(_)
SetLcm(S) ==
    IF S = {} THEN 1
    ELSE LET x == CHOOSE y \in S : TRUE
             r == SetLcm(S \ {x})
         IN  (x \div GCD(x, r)) * r

PriceLcm == SetLcm(Closes)

\* null, for a prop, a memo value or a band field
Null == [null |-> TRUE]

RECURSIVE SumSeq(_)
SumSeq(xs) == IF xs = << >> THEN 0 ELSE Head(xs) + SumSeq(Tail(xs))

RECURSIVE BigSumSeq(_)
BigSumSeq(xs) == IF xs = << >> THEN Big(0) ELSE BigAdd(Head(xs), BigSumSeq(Tail(xs)))

(***************************************************************************)
(* xs.reduce((a, b) => a + b, 0) / xs.length, and                          *)
(* Math.sqrt(xs.reduce((a, b) => a + Math.pow(b - mean, 2), 0) / length):  *)
(* with S the sum and n the length, b - mean = (n*b - S)/n, so the         *)
(* variance is  sum (n*b - S)^2 / n^3.                                     *)
(***************************************************************************)
MeanOf(xs) == Rat(SumSeq(xs), Len(xs))

PopulationSD(xs) ==
    LET n == Len(xs)
        S == SumSeq(xs)
    IN  Surd(BigSumSeq([i \in 1..n |-> BigSq(Big(n * xs[i] - S))]), n * n * n)

\* ((day.close - prev.close) / prev.close) * 100, in units of 100/PriceLcm percent
ChangePercent(close, prev) == ((close - prev) * PriceLcm) \div prev

(***************************************************************************)
(* [...data.history].sort((a, b) => time(a.date) - time(b.date)): the      *)
(* sort is stable, samples of one date keep their input order.             *)
(***************************************************************************)
\* InsertByDate that puts a sample before the samples of its date
RECURSIVE InsertByDateFirst(_, _)
InsertByDateFirst(sorted, x) ==
    IF sorted = << >> THEN <<x>>
    ELSE IF sorted[Len(sorted)].date < x.date THEN Append(sorted, x)
    ELSE Append(InsertByDateFirst(SubSeq(sorted, 1, Len(sorted) - 1), x), sorted[Len(sorted)])

RECURSIVE InsertByDate(_, _)
InsertByDate(sorted, x) ==
    IF sorted = << >> THEN <<x>>
    ELSE IF sorted[Len(sorted)].date <= x.date THEN Append(sorted, x)
    ELSE Append(InsertByDate(SubSeq(sorted, 1, Len(sorted) - 1), x), sorted[Len(sorted)])

RECURSIVE SortByDate(_)
SortByDate(h) ==
    IF h = << >> THEN << >>
    ELSE InsertByDate(SortByDate(SubSeq(h, 1, Len(h) - 1)), h[Len(h)])

\* the rolling window: 20 samples, indices index-19 .. index
Window == 20

\* mean + k * sd: a Bollinger band (k = 2, -2) or a sigma marker
Band(mean, k, sd) == [mean |-> mean, k |-> k, sd |-> sd]

\* SliceOf with a window that starts one sample late: slice(index - 18, index + 1)
SliceOfShort(history, i) == SubSeq(history, i - (Window - 2), i)

\* history.slice(index - 19, index + 1), for the 1-based position i = index + 1
SliceOf(history, i) == SubSeq(history, i - (Window - 1), i)

\* RollingChanges that keeps the 0 of the first sample of the slice
RollingChangesWithFirst(slice) ==
    [j \in 1..Len(slice) |->
        IF j = 1 THEN 0 ELSE ChangePercent(slice[j].close, slice[j - 1].close)]

RollingChanges(slice) ==
    [j \in 1..(Len(slice) - 1) |-> ChangePercent(slice[j + 1].close, slice[j].close)]

ProcessedDay(history, i) ==
    LET day == history[i]
        changePercent == IF i > 1 THEN ChangePercent(day.close, history[i - 1].close) ELSE 0
        rolling == i - 1 >= Window - 1
        slice == SliceOf(history, i)
        changes == RollingChanges(slice)
        prices == [j \in 1..Len(slice) |-> slice[j].close]
        meanPrice == MeanOf(prices)
        sdPrice == PopulationSD(prices)
    IN  [date |-> day.date,
         close |-> day.close,
         changePercent |-> changePercent,
         rollingSD |-> IF rolling /\ Len(changes) > 0 THEN PopulationSD(changes) ELSE SurdZero,
         sma20 |-> IF rolling THEN meanPrice ELSE Null,
         upperBand |-> IF rolling THEN Band(meanPrice, 2, sdPrice) ELSE Null,
         lowerBand |-> IF rolling THEN Band(meanPrice, -2, sdPrice) ELSE Null]

\* ProcessedData with the guard of the distribution: nothing below 2 samples
ProcessedDataFromTwo(d) ==
    IF Len(d.history) < 2 THEN << >>
    ELSE LET history == SortByDate(d.history)
         IN  [i \in 1..Len(history) |-> ProcessedDay(history, i)]

ProcessedData(d) ==
    IF Len(d.history) = 0 THEN << >>
    ELSE LET history == SortByDate(d.history)
         IN  [i \in 1..Len(history) |-> ProcessedDay(history, i)]

(***************************************************************************)
(* The return distribution (distributionData).                             *)
(*                                                                         *)
(* A position on the histogram axis is counted in bins of binSize = 0.1    *)
(* percent: the integer t stands for t * 0.1 percent.  A value of x units  *)
(* lies at x * 1000 / PriceLcm bins.                                       *)
(***************************************************************************)
\* bins per percent: 1 / binSize
BinsPerPercent == 10

\* the histogram axis the model covers, in bins on either side of zero
AxisLimit == 100 * BinsPerPercent

\* t <= (v.mean + v.k * v.sd) / binSize
AtOrBelow(t, v) ==
    LeqSurd(BigSub(BigMul(Big(t * v.mean.den), Big(PriceLcm)),
                   Big(100 * BinsPerPercent * v.mean.num)),
            100 * BinsPerPercent * v.mean.den * v.k,
            v.sd)

\* the largest t in lo..hi with AtOrBelow(t, v), given AtOrBelow(lo, v)
RECURSIVE FloorSearch(_, _, _)
FloorSearch(v, lo, hi) ==
    IF lo = hi THEN lo
    ELSE LET mid == (lo + hi + 1) \div 2
         IN  IF AtOrBelow(mid, v) THEN FloorSearch(v, mid, hi)
             ELSE FloorSearch(v, lo, mid - 1)

\* Math.floor(v / binSize)
FloorBin(v) == FloorSearch(v, -AxisLimit, AxisLimit)

\* Math.ceil(v / binSize) = -Math.floor(-v / binSize)
CeilBin(v) == -FloorBin(Band(RNeg(v.mean), -v.k, v.sd))

\* a <= b, for two values over the same standard deviation
ValLeq(a, b) == RatLeqSurd(RSub(a.mean, b.mean), b.k - a.k, a.sd)

\* Math.min(...vs) and Math.max(...vs)
MinVal(vs) == vs[CHOOSE i \in 1..Len(vs) : \A j \in 1..Len(vs) : ValLeq(vs[i], vs[j])]

MaxVal(vs) == vs[CHOOSE i \in 1..Len(vs) : \A j \in 1..Len(vs) : ValLeq(vs[j], vs[i])]

(***************************************************************************)
(* The key of a bin is a string, i.toFixed(1): a sign and a magnitude.     *)
(* toFixed writes "-" for every negative number, also for one that rounds  *)
(* to zero, so "-0.0" and "0.0" are two keys.                              *)
(***************************************************************************)
BinKey(neg, tenths) == [neg |-> neg, tenths |-> tenths]

\* parseFloat(key) / binSize
ParseKey(key) == IF key.neg THEN -key.tenths ELSE key.tenths

(***************************************************************************)
(* for (let i = min; i <= max + binSize / 2; i += binSize): i starts at    *)
(* lo * 0.1 and accumulates the rounding error of every addition.  Within  *)
(* the axis the model covers, i rounds to the expected tenth at every      *)
(* step, and the loop runs through hi.  When the loop passes zero, i is    *)
(* exactly zero for a start 1 or 2 bins below zero, slightly negative for  *)
(* the starts listed here, and slightly positive for the others.           *)
(***************************************************************************)
NegativeAtZero(lo) == -lo \in (3..14) \cup (46..189) \cup (754..AxisLimit)

\* the key written at the step of the loop that stands at bin t
LoopKey(lo, t) == BinKey(t < 0 \/ (t = 0 /\ NegativeAtZero(lo)), Abs(t))

\* (Math.floor(change / binSize) * binSize).toFixed(1)
ChangeKey(change) ==
    LET t == (change * 100 * BinsPerPercent) \div PriceLcm
    IN  BinKey(t < 0, Abs(t))

Val(x) == Band(RInt(x), 0, SurdZero)

WithSd(v, sd) == Band(v.mean, v.k, sd)

EmptyDistribution ==
    [data |-> << >>, mean |-> RInt(0), sd |-> SurdZero,
     count1Sigma |-> 0, count2Sigma |-> 0, totalDays |-> 0]

\* DistributionChanges that keeps the 0 of the first sample
DistributionChangesWithFirst(history) ==
    [i \in 1..Len(history) |->
        IF i = 1 THEN 0 ELSE ChangePercent(history[i].close, history[i - 1].close)]

\* the daily changes, in the order of data.history
DistributionChanges(history) ==
    [i \in 1..(Len(history) - 1) |-> ChangePercent(history[i + 1].close, history[i].close)]

\* CountWithin that leaves out a change exactly k deviations from the mean
CountWithinStrict(changes, mean, k, sd) ==
    Cardinality({i \in 1..Len(changes) :
        /\ ~RatGeqSurd(RSub(RInt(changes[i]), mean), k, sd)
        /\ ~RatGeqSurd(RSub(mean, RInt(changes[i])), k, sd)})

\* changes.filter(c => Math.abs(c - mean) <= k * sd).length
CountWithin(changes, mean, k, sd) ==
    Cardinality({i \in 1..Len(changes) :
        /\ RatLeqSurd(RSub(RInt(changes[i]), mean), k, sd)
        /\ RatLeqSurd(RSub(mean, RInt(changes[i])), k, sd)})

SigmaMarkers(mean, sd) ==
    <<Band(mean, 0, sd), Band(mean, 1, sd), Band(mean, -1, sd),
      Band(mean, 2, sd), Band(mean, -2, sd)>>

\* a change whose key is not among the initialised bins is not counted
CountChange(bins, key) ==
    IF key \in DOMAIN bins THEN [bins EXCEPT ![key] = @ + 1] ELSE bins

RECURSIVE FillBins(_, _)
FillBins(bins, changes) ==
    IF changes = << >> THEN bins
    ELSE FillBins(CountChange(bins, ChangeKey(Head(changes))), Tail(changes))

\* ChartData without the bins that count nothing
ChartDataCounted(bins) ==
    LET counted == {k \in DOMAIN bins : bins[k] > 0}
    IN  [j \in 1..Cardinality(counted) |->
            LET key == CHOOSE k \in counted :
                           Cardinality({o \in counted : ParseKey(o) < ParseKey(k)}) = j - 1
            IN  [bin |-> ParseKey(key), count |-> bins[key]]]

\* Object.entries(bins).map(...).sort((a, b) => a.bin - b.bin): the j-th row is
\* the bin with j - 1 bins below it
ChartData(bins) ==
    [j \in 1..Cardinality(DOMAIN bins) |->
        LET key == CHOOSE k \in DOMAIN bins :
                       Cardinality({o \in DOMAIN bins : ParseKey(o) < ParseKey(k)}) = j - 1
        IN  [bin |-> ParseKey(key), count |-> bins[key]]]

\* const bins = {}; for (...) bins[i.toFixed(1)] = 0
InitialBins(min, max) == [key \in {LoopKey(min, t) : t \in min..max} |-> 0]

\* Math.min(...changes) and Math.max(...changes)
DataMin(changes, sd) == MinVal([i \in 1..Len(changes) |-> WithSd(Val(changes[i]), sd)])

DataMax(changes, sd) == MaxVal([i \in 1..Len(changes) |-> WithSd(Val(changes[i]), sd)])

\* AxisMin from the data alone, without the sigma markers
AxisMinOfData(changes, mean, sd) == FloorBin(DataMin(changes, sd))

\* Math.floor(Math.min(dataMin, markersMin) / binSize)
AxisMin(changes, mean, sd) ==
    FloorBin(MinVal(<<DataMin(changes, sd), MinVal(SigmaMarkers(mean, sd))>>))

\* Math.ceil(Math.max(dataMax, markersMax) / binSize)
AxisMax(changes, mean, sd) ==
    CeilBin(MaxVal(<<DataMax(changes, sd), MaxVal(SigmaMarkers(mean, sd))>>))

Histogram(changes, mean, sd) ==
    [data |-> ChartData(FillBins(InitialBins(AxisMin(changes, mean, sd),
                                             AxisMax(changes, mean, sd)), changes)),
     mean |-> mean,
     sd |-> sd,
     count1Sigma |-> CountWithin(changes, mean, 1, sd),
     count2Sigma |-> CountWithin(changes, mean, 2, sd),
     totalDays |-> Len(changes)]

DistributionOf(changes) == Histogram(changes, MeanOf(changes), PopulationSD(changes))

DistributionData(d) ==
    IF Len(d.history) < 2 THEN EmptyDistribution
    ELSE DistributionOf(DistributionChanges(d.history))

(***************************************************************************)
(* The trading simulation (simulationData).                                *)
(***************************************************************************)
\* dollars invested per buy
BuyAmount == 100

Zones == {"-2", "-1", "0", "1", "2"}

\* ZoneOf with strict comparisons: a day on a boundary falls in the inner zone
ZoneOfStrict(diff, sigma) ==
    IF ~RatGeqSurd(diff, -2, sigma) THEN "-2"
    ELSE IF ~RatGeqSurd(diff, -1, sigma) THEN "-1"
    ELSE IF ~RatLeqSurd(diff, 2, sigma) THEN "2"
    ELSE IF ~RatLeqSurd(diff, 1, sigma) THEN "1"
    ELSE "0"

\* the zone of a day, from diff = change - mean: the first test that matches
ZoneOf(diff, sigma) ==
    IF RatLeqSurd(diff, -2, sigma) THEN "-2"
    ELSE IF RatLeqSurd(diff, -1, sigma) THEN "-1"
    ELSE IF RatGeqSurd(diff, 2, sigma) THEN "2"
    ELSE IF RatGeqSurd(diff, 1, sigma) THEN "1"
    ELSE "0"

\* selectedZones.includes(zone)
Includes(zones, zone) == \E i \in 1..Len(zones) : zones[i] = zone

\* DividendMap that adds up the events of a date
DividendMapSummed(dividends) ==
    [date \in {dividends[i].date : i \in 1..Len(dividends)} |->
        SumSeq([i \in 1..Len(dividends) |->
                   IF dividends[i].date = date THEN dividends[i].amount ELSE 0])]

\* dividendMap: date -> amount; a later event of a date overwrites an earlier one
DividendMap(dividends) ==
    [date \in {dividends[i].date : i \in 1..Len(dividends)} |->
        LET last == CHOOSE i \in 1..Len(dividends) :
                        /\ dividends[i].date = date
                        /\ \A j \in (i + 1)..Len(dividends) : dividends[j].date # date
        IN  dividends[last].amount]

EmptySimulation ==
    [sharesReinvest |-> RInt(0), totalInvested |-> 0, buyCount |-> 0,
     totalDividendsReinvested |-> RInt(0), buyDates |-> {},
     sharesNoReinvest |-> RInt(0), cashNoReinvest |-> RInt(0),
     totalDividendsCash |-> RInt(0), simHistory |-> << >>]

\* PayDividend without the tests payout > 0
PayDividendAnySign(st, day, dividendMap) ==
    IF day.date \notin DOMAIN dividendMap THEN st
    ELSE LET divAmount == RInt(dividendMap[day.date])
             payoutReinvest == RMul(st.sharesReinvest, divAmount)
             payoutCash == RMul(st.sharesNoReinvest, divAmount)
         IN  [st EXCEPT
                !.sharesReinvest = RAdd(@, RDiv(payoutReinvest, RInt(day.close))),
                !.totalDividendsReinvested = RAdd(@, payoutReinvest),
                !.cashNoReinvest = RAdd(@, payoutCash),
                !.totalDividendsCash = RAdd(@, payoutCash)]

\* PayDividend that buys shares for the cash policy too
PayDividendInShares(st, day, dividendMap) ==
    IF day.date \notin DOMAIN dividendMap THEN st
    ELSE LET divAmount == RInt(dividendMap[day.date])
             payoutReinvest == RMul(st.sharesReinvest, divAmount)
             payoutCash == RMul(st.sharesNoReinvest, divAmount)
             reinvested ==
                 IF RPos(payoutReinvest)
                 THEN [st EXCEPT
                        !.sharesReinvest = RAdd(@, RDiv(payoutReinvest, RInt(day.close))),
                        !.totalDividendsReinvested = RAdd(@, payoutReinvest)]
                 ELSE st
         IN  IF RPos(payoutCash)
             THEN [reinvested EXCEPT
                    !.sharesNoReinvest = RAdd(@, RDiv(payoutCash, RInt(day.close))),
                    !.totalDividendsCash = RAdd(@, payoutCash)]
             ELSE reinvested

\* 1. the dividend of the day, paid on the shares held before the buy
PayDividend(st, day, dividendMap) ==
    IF day.date \notin DOMAIN dividendMap THEN st
    ELSE LET divAmount == RInt(dividendMap[day.date])
             payoutReinvest == RMul(st.sharesReinvest, divAmount)
             payoutCash == RMul(st.sharesNoReinvest, divAmount)
             reinvested ==
                 IF RPos(payoutReinvest)
                 THEN [st EXCEPT
                        !.sharesReinvest = RAdd(@, RDiv(payoutReinvest, RInt(day.close))),
                        !.totalDividendsReinvested = RAdd(@, payoutReinvest)]
                 ELSE st
         IN  IF RPos(payoutCash)
             THEN [reinvested EXCEPT
                    !.cashNoReinvest = RAdd(@, payoutCash),
                    !.totalDividendsCash = RAdd(@, payoutCash)]
             ELSE reinvested

\* BuyStep that never buys on the first day, the day without a return
BuyStepAfterFirst(st, day, zone, zones) ==
    IF Includes(zones, zone) /\ st.simHistory # << >>
    THEN LET sharesBought == RDiv(RInt(BuyAmount), RInt(day.close))
         IN  [st EXCEPT
                !.sharesReinvest = RAdd(@, sharesBought),
                !.sharesNoReinvest = RAdd(@, sharesBought),
                !.totalInvested = @ + BuyAmount,
                !.buyCount = @ + 1,
                !.buyDates = @ \cup {day.date}]
    ELSE st

\* BuyStep that does not count the buy
BuyStepUncounted(st, day, zone, zones) ==
    IF Includes(zones, zone)
    THEN LET sharesBought == RDiv(RInt(BuyAmount), RInt(day.close))
         IN  [st EXCEPT
                !.sharesReinvest = RAdd(@, sharesBought),
                !.sharesNoReinvest = RAdd(@, sharesBought),
                !.totalInvested = @ + BuyAmount,
                !.buyDates = @ \cup {day.date}]
    ELSE st

\* BuyStep that buys for the reinvest policy alone
BuyStepReinvestOnly(st, day, zone, zones) ==
    IF Includes(zones, zone)
    THEN LET sharesBought == RDiv(RInt(BuyAmount), RInt(day.close))
         IN  [st EXCEPT
                !.sharesReinvest = RAdd(@, sharesBought),
                !.totalInvested = @ + BuyAmount,
                !.buyCount = @ + 1,
                !.buyDates = @ \cup {day.date}]
    ELSE st

\* BuyStep that takes an empty selection for every zone
BuyStepUnselected(st, day, zone, zones) ==
    IF Includes(zones, zone) \/ zones = << >>
    THEN LET sharesBought == RDiv(RInt(BuyAmount), RInt(day.close))
         IN  [st EXCEPT
                !.sharesReinvest = RAdd(@, sharesBought),
                !.sharesNoReinvest = RAdd(@, sharesBought),
                !.totalInvested = @ + BuyAmount,
                !.buyCount = @ + 1,
                !.buyDates = @ \cup {day.date}]
    ELSE st

\* 2. the buy of the day, when its zone is selected
BuyStep(st, day, zone, zones) ==
    IF Includes(zones, zone)
    THEN LET sharesBought == RDiv(RInt(BuyAmount), RInt(day.close))
         IN  [st EXCEPT
                !.sharesReinvest = RAdd(@, sharesBought),
                !.sharesNoReinvest = RAdd(@, sharesBought),
                !.totalInvested = @ + BuyAmount,
                !.buyCount = @ + 1,
                !.buyDates = @ \cup {day.date}]
    ELSE st

\* HistoryPoint that leaves the cash out of the value of the cash policy
HistoryPointOfShares(st, day, zone) ==
    [st EXCEPT !.simHistory = Append(@,
        [date |-> day.date,
         zone |-> zone,
         invested |-> st.totalInvested,
         valueReinvest |-> RMul(st.sharesReinvest, RInt(day.close)),
         valueNoReinvest |-> RMul(st.sharesNoReinvest, RInt(day.close))])]

\* 3. simHistory.push({...}); the point also records the local variable zone
\* of the iteration, for the properties
HistoryPoint(st, day, zone) ==
    [st EXCEPT !.simHistory = Append(@,
        [date |-> day.date,
         zone |-> zone,
         invested |-> st.totalInvested,
         valueReinvest |-> RMul(st.sharesReinvest, RInt(day.close)),
         valueNoReinvest |-> RAdd(RMul(st.sharesNoReinvest, RInt(day.close)),
                                  st.cashNoReinvest)])]

BuyAndRecord(st, day, zone, zones) == HistoryPoint(BuyStep(st, day, zone, zones), day, zone)

\* SimulateDay that classifies the change itself, not its distance from the mean
SimulateDayOnChange(st, day, mean, sigma, dividendMap, zones) ==
    BuyAndRecord(PayDividend(st, day, dividendMap), day,
                 ZoneOf(RInt(day.changePercent), sigma), zones)

\* one iteration of processedData.map(day => ...)
SimulateDay(st, day, mean, sigma, dividendMap, zones) ==
    BuyAndRecord(PayDividend(st, day, dividendMap), day,
                 ZoneOf(RSub(RInt(day.changePercent), mean), sigma), zones)

\* processedData.map((day, index) => ...), from the day after the last point
RECURSIVE SimulateDays(_, _, _, _, _, _)
SimulateDays(st, days, mean, sigma, dividendMap, zones) ==
    IF Len(st.simHistory) = Len(days) THEN st
    ELSE SimulateDays(SimulateDay(st, days[Len(st.simHistory) + 1], mean, sigma,
                                  dividendMap, zones),
                      days, mean, sigma, dividendMap, zones)

\* TotalReturn without the test of totalInvested
TotalReturnUnguarded(currentValue, totalInvested) ==
    RMul(RDiv(RSub(currentValue, RInt(totalInvested)), RInt(totalInvested)), RInt(100))

\* totalInvested > 0 ? ((currentValue - totalInvested) / totalInvested) * 100 : 0
TotalReturn(currentValue, totalInvested) ==
    IF totalInvested > 0
    THEN RMul(RDiv(RSub(currentValue, RInt(totalInvested)), RInt(totalInvested)), RInt(100))
    ELSE RInt(0)

\* the summary returned after the loop
Summary(end, currentPrice) ==
    [history |-> end.simHistory,
     totalBuys |-> end.buyCount,
     totalInvested |-> end.totalInvested,
     totalDividends |-> end.totalDividendsReinvested,
     currentValue |-> RMul(end.sharesReinvest, RInt(currentPrice)),
     totalReturn |-> TotalReturn(RMul(end.sharesReinvest, RInt(currentPrice)),
                                 end.totalInvested),
     buyDates |-> end.buyDates]

Simulate(processed, distribution, d, zones) ==
    IF Len(processed) = 0 \/ SurdIsZero(distribution.sd) THEN Null
    ELSE Summary(SimulateDays(EmptySimulation, processed, distribution.mean,
                              distribution.sd, DividendMap(d.dividends), zones),
                 d.currentPrice)

(***************************************************************************)
(* The series handed to the charts (downsample, chartData,                 *)
(* simulationChartData).  The callers pass arrays, never null.             *)
(***************************************************************************)
\* points per chart: downsample(processedData, 500)
ChartLimit == 500

\* Math.ceil(x); Infinity and NaN are returned as they are
Ceil(x) == IF x.den = 0 THEN x ELSE RInt(-((-x.num) \div x.den))

\* Step that rounds down
StepFloor(length, limit) == Ceil(Rat(length - Abs(limit) + 1, limit))

\* Math.ceil(data.length / limit): Infinity for the limit 0, -0 or a negative
\* integer for a negative limit
Step(length, limit) == Ceil(Rat(length, limit))

\* OnStep that keeps the last index of every stride instead of the first
OnStepLast(i, step) ==
    IF step.den = 0 THEN step.num # 0 /\ i = 0
    ELSE step.num # 0 /\ (i + 1) % Abs(step.num) = 0

\* i % step === 0, for an index i >= 0: i % Infinity is i, i % -0 is NaN, and
\* i % -k is i % k
OnStep(i, step) ==
    IF step.den = 0 THEN step.num # 0 /\ i = 0
    ELSE step.num # 0 /\ i % Abs(step.num) = 0

\* the positions data.filter((_, i) => i % step === 0) keeps, 1-based
KeptPositions(length, step) == {i \in 1..length : OnStep(i - 1, step)}

\* the elements of xs at the positions kept, in the order of xs
Filtered(xs, kept) ==
    LET positions == SelectSeq([i \in 1..Len(xs) |-> i], LAMBDA i : i \in kept)
    IN  [j \in 1..Len(positions) |-> xs[positions[j]]]

Downsample(xs, limit) ==
    IF Len(xs) <= limit THEN xs
    ELSE Filtered(xs, KeptPositions(Len(xs), Step(Len(xs), limit)))

\* {...point, buyPrice: simulationData.buyDates.has(point.date) ? point.close : null}
WithBuyPrice(point, buyDates) ==
    [f \in DOMAIN point \cup {"buyPrice"} |->
        IF f # "buyPrice" THEN point[f]
        ELSE IF point.date \in buyDates THEN RInt(point.close) ELSE Null]

\* the value of the chartData memo
ChartPoints(downsampled, simulation) ==
    IF simulation = Null THEN downsampled
    ELSE [i \in 1..Len(downsampled) |-> WithBuyPrice(downsampled[i], simulation.buyDates)]

\* the value of the simulationChartData memo
SimulationChartPoints(simulation) ==
    IF simulation = Null THEN << >> ELSE Downsample(simulation.history, ChartLimit)

(***************************************************************************)
(* The component and its parent page.                                      *)
(*                                                                         *)
(* data is the prop the page passes (stockData); selectedZones is the      *)
(* component's state; processedData, distributionData and simulationData   *)
(* are the values its useMemo hooks hold after the last render.  Every     *)
(* action is an event handler followed by the render React runs for it.    *)
(* toggles counts the calls of toggleZone since the component mounted its   *)
(* hooks and toggled lists their arguments, for the properties.            *)
(* chartData and simulationChartData are the memo values the charts draw.  *)
(* downsampled is a call of downsample on its own: its arguments and the   *)
(* array it returned.  page is the rest of the page: loading, the requests *)
(* to /api/stock in flight and, for the properties, the number of requests *)
(* issued, the newest request answered and the request whose answer is on  *)
(* display (0 for none).  run is one computation of simulationData on its  *)
(* own, statement by statement: its inputs, its local variables (st, zone) *)
(* and the part of the loop body that runs next (step).  market is the     *)
(* /api/market route with its cache: the content of the cache file, the    *)
(* clock in hours, and the GET requests received so far, each with what it *)
(* read on arrival and how far it has got.                                 *)
(***************************************************************************)
VARIABLES data, selectedZones, processedData, distributionData, simulationData,
          toggles, toggled, chartData, simulationChartData, downsampled, page, run,
          market

vars == <<data, selectedZones, processedData, distributionData, simulationData,
          toggles, toggled, chartData, simulationChartData, downsampled, page, run,
          market>>

\* the prop, the state and the memo values of the component
component ==
    <<data, selectedZones, processedData, distributionData, simulationData,
      toggles, toggled, chartData, simulationChartData>>

\* useState<string[]>(["-2", "-1"])
InitialZones == <<"-2", "-1">>

\* longest history of the exhaustive inputs
MaxLen == 4

\* longest history of the inputs that are replayed under zone toggles
MaxReplayLen == 3

\* zone toggles between two searches
MaxToggles == 2

\* longest history of the inputs with a full rolling window
MaxRollingLen == 21

\* zone toggles in a row on one input
MaxToggleRun == 4

RECURSIVE SeqsOf(_, _)
SeqsOf(S, n) ==
    IF n = 0 THEN {<< >>}
    ELSE {Append(q, x) : q \in SeqsOf(S, n - 1), x \in S}

\* a history of the closes cs, dated 1..n in input order or n..1 (newest first)
HistoryOf(cs, ascending) ==
    [i \in 1..Len(cs) |->
        [date |-> IF ascending THEN i ELSE Len(cs) + 1 - i, close |-> cs[i]]]

(***************************************************************************)
(* A tie: a daily change, or the 0 of the first day, lies exactly 1 or 2   *)
(* standard deviations from the mean.  The program compares doubles, and   *)
(* on a tie their rounding error decides the comparison unless the values  *)
(* are exact.  The generated histories leave the ties out; the scenarios   *)
(* bring the ties whose values doubles hold exactly (means and deviations  *)
(* 0.5 and 0.5, 1 and 2, -1 and 2).                                        *)
(***************************************************************************)
OnSigma(x, mean, sd) ==
    \E k \in {-2, -1, 1, 2} :
        RatLeqSurd(RSub(RInt(x), mean), k, sd) /\ RatGeqSurd(RSub(RInt(x), mean), k, sd)

TiedOn(xs, mean, sd) == ~SurdIsZero(sd) /\ \E x \in xs : OnSigma(x, mean, sd)

DayChanges(history) ==
    {0} \cup {DistributionChanges(history)[i] : i \in 1..(Len(history) - 1)}
        \cup {DistributionChanges(SortByDate(history))[i] : i \in 1..(Len(history) - 1)}

Tied(history) ==
    /\ Len(history) >= 2
    /\ TiedOn(DayChanges(history), MeanOf(DistributionChanges(history)),
              PopulationSD(DistributionChanges(history)))

\* the example of the specification; a change at one deviation on either side
\* of the mean; a flat series with a final move at two deviations
Scenarios ==
    {<<100, 101, 99, 102>>, <<100, 100, 101>>,
     <<100, 100, 100, 100, 100, 105>>, <<100, 100, 100, 100, 100, 95>>}

ScenarioHistories == {HistoryOf(cs, TRUE) : cs \in Scenarios}

Untied(histories) == {h \in histories : ~Tied(h)} \cup ScenarioHistories

CloseSeqs == UNION {SeqsOf(Closes, n) : n \in 0..MaxLen}

Histories ==
    Untied({HistoryOf(cs, TRUE) : cs \in CloseSeqs}
               \cup {HistoryOf(cs, FALSE) : cs \in {c \in CloseSeqs : Len(c) >= 2}})

\* every history of the exhaustive family, without dividends
StockData == [history : Histories, dividends : {<< >>}, currentPrice : {100}]

\* the inputs replayed under zone toggles and refreshes: short histories and
\* the scenarios, without a dividend or with one of amount 1 on the second
\* date, and a quote outside the range of the closes
ReplayCloses == {100, 101}

ReplayHistories ==
    Untied({HistoryOf(cs, TRUE) :
                cs \in UNION {SeqsOf(ReplayCloses, n) : n \in 0..MaxReplayLen}})

ReplayData ==
    [history : ReplayHistories,
     dividends : {<< >>, <<[date |-> 2, amount |-> 1]>>},
     currentPrice : {105}]

\* the input of the long runs of toggles: the example with a dividend
ToggleData == {d \in ReplayData : d.history = HistoryOf(<<100, 101, 99, 102>>, TRUE)
                                      /\ d.dividends # << >>}

\* what a refresh answers for the stock on display: the history with one more day
Updates(d) ==
    IF d = Null THEN {}
    ELSE {u \in ReplayData :
            /\ Len(u.history) = Len(d.history) + 1
            /\ SubSeq(u.history, 1, Len(d.history)) = d.history
            /\ u.dividends = d.dividends}

\* series long enough for the rolling window: flat at 100 with up to two moves
RollingData ==
    [history : Untied({HistoryOf([i \in 1..n |-> IF i = p THEN a ELSE IF i = q THEN b ELSE 100], TRUE) :
                    n \in (Window - 1)..MaxRollingLen, p \in {1, 2, 3, 4, Window},
                    q \in {Window - 1, Window + 1}, a \in Closes, b \in Closes}),
     dividends : {<< >>},
     currentPrice : {100}]

\* longest history of the inputs in any order of dates
MaxAlignLen == 3

\* the dates of those inputs: fewer dates than samples bring duplicate dates
AlignDates == {1, 2, 3}

\* four samples out of order, two of them of one date with different closes
AlignScenarios ==
    {<<[date |-> 2, close |-> 100], [date |-> 1, close |-> 100],
       [date |-> 1, close |-> 101], [date |-> 3, close |-> 100]>>,
     <<[date |-> 2, close |-> 100], [date |-> 1, close |-> 101],
       [date |-> 1, close |-> 100], [date |-> 3, close |-> 100]>>,
     <<[date |-> 1, close |-> 101], [date |-> 3, close |-> 100],
       [date |-> 1, close |-> 100], [date |-> 2, close |-> 100]>>}

\* histories in any order, with dates that repeat
AlignHistories ==
    Untied(AlignScenarios
               \cup UNION {SeqsOf([date : AlignDates, close : ReplayCloses], n) :
                               n \in 0..MaxAlignLen})

AlignData == [history : AlignHistories, dividends : {<< >>}, currentPrice : {100}]

\* requests to /api/stock issued in one behaviour
MaxRequests == 4

\* what /api/stock answers: one of two series
RequestData ==
    [history : {HistoryOf(<<100, 100, 101>>, TRUE), HistoryOf(<<100, 101, 99, 102>>, TRUE)},
     dividends : {<< >>},
     currentPrice : {105}]

\* the inputs of the runs on their own: the scenarios, without a dividend, with
\* one on the second date, on the third date, on two dates, on a date of no
\* sample, and with a dividend of amount 0
RunDividends ==
    {<< >>,
     <<[date |-> 2, amount |-> 1]>>,
     <<[date |-> 3, amount |-> 2]>>,
     <<[date |-> 2, amount |-> 1], [date |-> 4, amount |-> 1]>>,
     <<[date |-> 9, amount |-> 1]>>,
     <<[date |-> 2, amount |-> 0]>>}

RunData == [history : ScenarioHistories, dividends : RunDividends, currentPrice : {105}]

\* dividend lists with amounts below zero: alone, before and after a payment
SignedDividends ==
    {<<[date |-> 2, amount |-> -1]>>,
     <<[date |-> 2, amount |-> -1], [date |-> 3, amount |-> 1]>>,
     <<[date |-> 2, amount |-> 1], [date |-> 3, amount |-> -2]>>,
     <<[date |-> 2, amount |-> 1], [date |-> 4, amount |-> -1]>>}

\* the inputs of the runs with dividends of either sign
SignedData ==
    [history : ScenarioHistories,
     dividends : RunDividends \cup SignedDividends,
     currentPrice : {105}]

\* the example, and the example with its second and third sample on one date
RepeatHistories ==
    {HistoryOf(<<100, 101, 99, 102>>, TRUE),
     <<[date |-> 1, close |-> 100], [date |-> 2, close |-> 101],
       [date |-> 2, close |-> 99], [date |-> 3, close |-> 102]>>}

\* dividend lists with several events on one date: a smaller amount last, a
\* larger amount last, the amount 0 last after an event of another date, and
\* one event alone
RepeatDividends ==
    {<<[date |-> 2, amount |-> 2], [date |-> 2, amount |-> 1]>>,
     <<[date |-> 2, amount |-> 1], [date |-> 2, amount |-> 2]>>,
     <<[date |-> 2, amount |-> 1], [date |-> 3, amount |-> 1], [date |-> 2, amount |-> 0]>>,
     <<[date |-> 2, amount |-> 1]>>}

\* the inputs of the runs with dates that repeat
RepeatData == [history : RepeatHistories, dividends : RepeatDividends, currentPrice : {105}]

\* the selections of the runs on their own
RunZones == {InitialZones, << >>, <<"0">>, <<"-1", "1">>, <<"-2", "-1", "0", "1", "2">>}

\* longest array and largest limit of the calls of downsample on their own
MaxSampleLen == 12

MaxLimit == 10

\* arrays whose elements are their own positions, 0-based
SampleArrays == {[i \in 1..n |-> i - 1] : n \in 0..MaxSampleLen}

\* the limits: a point budget, none, or a negative number
SampleLimits == -2..MaxLimit

\* arrays at and above the limit of the charts: as long as the limit, one
\* longer, and one longer than twice the limit
ChartArrays ==
    {[i \in 1..n |-> i - 1] : n \in {ChartLimit, ChartLimit + 1, 2 * ChartLimit + 1}}

(***************************************************************************)
(* useMemo(compute, deps): compute runs on mount and when a dependency is  *)
(* not Object.is the one of the previous render.  An array or object is    *)
(* compared by reference, a number by value.  changed names the            *)
(* references this render sees replaced.                                   *)
(***************************************************************************)
SurdSame(a, b) == BigMul(a.num, Big(b.den)) = BigMul(b.num, Big(a.den))

\* the dependency list without selectedZones
SimulationDepsWithoutZones == {"processedData", "sd", "mean", "currentPrice", "dividends"}

SimulationDeps ==
    {"processedData", "sd", "mean", "currentPrice", "dividends", "selectedZones"}

DepChanged(dep, changed, d, dist) ==
    CASE dep = "processedData" -> "data" \in changed
      [] dep = "dividends" -> "data" \in changed
      [] dep = "selectedZones" -> "selectedZones" \in changed
      [] dep = "sd" -> ~SurdSame(dist.sd, distributionData.sd)
      [] dep = "mean" -> dist.mean # distributionData.mean
      [] dep = "currentPrice" -> d.currentPrice # data.currentPrice

\* one render of the component with props d and state zones
Render(d, zones, changed, mount) ==
    /\ processedData' =
         IF mount \/ "data" \in changed THEN ProcessedData(d) ELSE processedData
    /\ distributionData' =
         IF mount \/ "data" \in changed THEN DistributionData(d) ELSE distributionData
    /\ simulationData' =
         IF mount \/ \E dep \in SimulationDeps : DepChanged(dep, changed, d, distributionData')
         THEN Simulate(processedData', distributionData', d, zones)
         ELSE simulationData
    /\ chartData' = ChartPoints(Downsample(processedData', ChartLimit), simulationData')
    /\ simulationChartData' = SimulationChartPoints(simulationData')

Init ==
    /\ data = Null
    /\ selectedZones = InitialZones
    /\ processedData = Null
    /\ distributionData = Null
    /\ simulationData = Null
    /\ toggles = 0
    /\ toggled = << >>
    /\ chartData = Null
    /\ simulationChartData = Null
    /\ downsampled = Null
    /\ page = [loading |-> FALSE, inFlight |-> {}, issued |-> 0, answered |-> 0, shown |-> 0]
    /\ run = [step |-> "idle"]
    /\ market = [cacheFile |-> Null, clock |-> 0, requests |-> << >>]

\* setStockData(d) and the render it causes; with no stock on display the
\* component mounts its hooks
SetStockData(d) ==
    /\ data' = d
    /\ UNCHANGED <<selectedZones, toggles, toggled>>
    /\ Render(d, selectedZones, {"data"}, data = Null)

\* setStockData(null) and the render it causes; if (!data) return null: no hook
\* runs and the component keeps no state
SetStockDataNull ==
    /\ data' = Null
    /\ selectedZones' = InitialZones
    /\ processedData' = Null
    /\ distributionData' = Null
    /\ simulationData' = Null
    /\ toggles' = 0
    /\ toggled' = << >>
    /\ chartData' = Null
    /\ simulationChartData' = Null

\* setStockData(data) of handleSearch, with no stock on display
SearchResult(d) ==
    /\ data = Null
    /\ SetStockData(d)
    /\ UNCHANGED <<downsampled, page, run, market>>

\* setStockData(data) of handleRangeChange and of the auto-refresh
RefreshData(d) ==
    /\ data # Null
    /\ SetStockData(d)
    /\ UNCHANGED <<downsampled, page, run, market>>

\* setStockData(null) at the start of handleSearch
ClearStockData ==
    /\ data # Null
    /\ SetStockDataNull
    /\ UNCHANGED <<downsampled, page, run, market>>

(***************************************************************************)
(* The requests to /api/stock.  A handler runs to its await and returns;   *)
(* the rest of it runs when the response arrives, at any later time and in *)
(* any order with the responses of the other requests.  Nothing cancels a  *)
(* request and nothing tells the responses apart.                          *)
(***************************************************************************)
Issue(kind, loading) ==
    page' = [page EXCEPT !.loading = loading,
                         !.issued = @ + 1,
                         !.inFlight = @ \cup {[id |-> page.issued + 1, kind |-> kind]}]

\* handleSearch up to its fetch.  SearchArea receives isLoading; the model
\* takes the strictest reading of it: no search is submitted while loading
StartSearch ==
    /\ ~page.loading
    /\ page.issued < MaxRequests
    /\ page' = [page EXCEPT !.loading = TRUE,
                            !.issued = @ + 1,
                            !.inFlight = @ \cup {[id |-> page.issued + 1, kind |-> "search"]},
                            !.shown = 0]
    /\ IF data # Null THEN SetStockDataNull
       ELSE UNCHANGED <<data, selectedZones, processedData, distributionData,
                        simulationData, toggles, toggled, chartData,
                        simulationChartData>>
    /\ UNCHANGED <<downsampled, run, market>>

\* handleRangeChange up to its fetch, from a button shown with a stock on
\* display; setTimeRange and setLoading render the dashboard with the same props
StartRangeChange ==
    /\ data # Null
    /\ page.issued < MaxRequests
    /\ Issue("range", TRUE)
    /\ UNCHANGED <<data, selectedZones, toggles, toggled, downsampled, run, market>>
    /\ Render(data, selectedZones, {}, FALSE)

\* a tick of the stock auto-refresh with a stock on display, up to its fetch
StartAutoRefresh ==
    /\ data # Null
    /\ page.issued < MaxRequests
    /\ Issue("refresh", page.loading)
    /\ UNCHANGED <<component, downsampled, run, market>>

\* the response of the request r arrives with the data d: setStockData(data),
\* and setLoading(false) in the handlers that set it
Respond(r, d) ==
    /\ r \in page.inFlight
    /\ page' = [page EXCEPT !.loading = IF r.kind = "refresh" THEN @ ELSE FALSE,
                            !.inFlight = @ \ {r},
                            !.answered = IF r.id > @ THEN r.id ELSE @,
                            !.shown = r.id]
    /\ SetStockData(d)
    /\ UNCHANGED <<downsampled, run, market>>

\* the request r fails: the handler catches the error and sets no data
Fail(r) ==
    /\ r \in page.inFlight
    /\ page' = [page EXCEPT !.loading = IF r.kind = "refresh" THEN @ ELSE FALSE,
                            !.inFlight = @ \ {r}]
    /\ UNCHANGED <<selectedZones, toggles, toggled, downsampled, run, market>>
    /\ IF data = Null
       THEN UNCHANGED <<data, processedData, distributionData, simulationData,
                        chartData, simulationChartData>>
       ELSE data' = data /\ Render(data, selectedZones, {}, FALSE)

\* NextZones that adds the zone whether it is selected or not
NextZonesAppended(prev, zone) == Append(prev, zone)

\* prev => prev.includes(zone) ? prev.filter(z => z !== zone) : [...prev, zone]
NextZones(prev, zone) ==
    IF Includes(prev, zone)
    THEN SelectSeq(prev, LAMBDA z : z # zone)
    ELSE Append(prev, zone)

\* toggleZone(zone), from a button of the simulation panel, as one of at most
\* `most` calls since the hooks were mounted
ToggleZoneWithin(zone, most) ==
    /\ simulationData # Null
    /\ toggles < most
    /\ toggles' = toggles + 1
    /\ toggled' = Append(toggled, zone)
    /\ selectedZones' = NextZones(selectedZones, zone)
    /\ UNCHANGED <<data, downsampled, page, run, market>>
    /\ Render(data, selectedZones', {"selectedZones"}, FALSE)

ToggleZone(zone) == ToggleZoneWithin(zone, MaxToggles)

\* downsample(data, limit), called on an array of its own
CallDownsample(xs, limit) ==
    /\ downsampled' = [data |-> xs, limit |-> limit, result |-> Downsample(xs, limit)]
    /\ UNCHANGED <<component, page, run, market>>

(***************************************************************************)
(* simulationData, statement by statement.  The callback of useMemo runs   *)
(* without interruption; the steps are the parts of its loop body in the   *)
(* order of the source: 1. dividend, 2. zone and buy, 3. history point.    *)
(***************************************************************************)
RunDay == run.days[Len(run.st.simHistory) + 1]

\* the callback up to its loop, for memo values and a selection that pass its
\* guard
StartRunOn(d, processed, distribution, zones) ==
    /\ run.step = "idle"
    /\ Len(processed) > 0
    /\ ~SurdIsZero(distribution.sd)
    /\ run' = [step |-> "dividend",
               days |-> processed,
               mean |-> distribution.mean,
               sigma |-> distribution.sd,
               dividends |-> d.dividends,
               dividendMap |-> DividendMap(d.dividends),
               currentPrice |-> d.currentPrice,
               zones |-> zones,
               st |-> EmptySimulation,
               zone |-> "0",
               result |-> Null]
    /\ UNCHANGED <<component, downsampled, page, market>>

StartRun(d, zones) == StartRunOn(d, ProcessedData(d), DistributionData(d), zones)

\* 1. Check for Dividend Payment
RunDividend ==
    /\ run.step = "dividend"
    /\ Len(run.st.simHistory) < Len(run.days)
    /\ run' = [run EXCEPT !.step = "buy",
                          !.st = PayDividend(@, RunDay, run.dividendMap)]
    /\ UNCHANGED <<component, downsampled, page, market>>

\* 2. Check if volatility trigger is met based on selected zones
RunBuy ==
    /\ run.step = "buy"
    /\ run' = [run EXCEPT
                 !.step = "point",
                 !.zone = ZoneOf(RSub(RInt(RunDay.changePercent), run.mean), run.sigma),
                 !.st = BuyStep(@, RunDay,
                                ZoneOf(RSub(RInt(RunDay.changePercent), run.mean), run.sigma),
                                run.zones)]
    /\ UNCHANGED <<component, downsampled, page, market>>

\* 3. the return of the callback of map
RunPoint ==
    /\ run.step = "point"
    /\ run' = [run EXCEPT !.step = "dividend",
                          !.st = HistoryPoint(@, RunDay, run.zone)]
    /\ UNCHANGED <<component, downsampled, page, market>>

\* the statements after the loop
FinishRun ==
    /\ run.step = "dividend"
    /\ Len(run.st.simHistory) = Len(run.days)
    /\ run' = [run EXCEPT !.step = "done", !.result = Summary(run.st, run.currentPrice)]
    /\ UNCHANGED <<component, downsampled, page, market>>

\* a render the page causes with the same props (loading, market data)
Rerender ==
    /\ data # Null
    /\ UNCHANGED <<data, selectedZones, toggles, toggled, downsampled, page, run, market>>
    /\ Render(data, selectedZones, {}, FALSE)

(***************************************************************************)
(* The /api/market route with the cache (src/app/api/market/route.ts).     *)
(* Time is counted in hours.  A value parsed from JSON is a record with    *)
(* its typeof in the field type; an object that is null is Null.           *)
(***************************************************************************)
\* CACHE_DURATION, in hours
CacheDuration == 12

\* GET requests received in one behaviour
MaxMarketRequests == 2

\* steps of the clock in one behaviour, each of half the cache duration
MaxTicks == 2

JsNumber(n) == [type |-> "number", value |-> n]

\* generateContent throws, or its text does not parse
ApiError == [error |-> "Gemini Search failed"]

\* what the generative API answers, parsed: two answers with a score (one
\* with gex and dix not found), an answer without fearGreed, one with the
\* score null, one with the score as a string; or a failure
ApiAnswers ==
    { [gex |-> Null, dix |-> Null, fearGreed |-> [current |-> JsNumber(30)]],
      [gex |-> [current |-> JsNumber(5)], dix |-> [current |-> JsNumber(45)],
       fearGreed |-> [current |-> JsNumber(70)]],
      [gex |-> [current |-> JsNumber(5)], dix |-> [current |-> JsNumber(45)],
       fearGreed |-> Null],
      [gex |-> Null, dix |-> Null, fearGreed |-> [current |-> [type |-> "null"]]],
      [gex |-> Null, dix |-> Null, fearGreed |-> [current |-> [type |-> "string", text |-> "70"]]],
      ApiError }

\* newData.fearGreed && typeof newData.fearGreed.current === 'number'; an
\* answer that accepts any score that is present takes its place in the mutant
ValidAnswerAnyScore(newData) ==
    /\ newData # ApiError
    /\ newData.fearGreed # Null
    /\ newData.fearGreed.current.type # "null"

ValidAnswer(newData) ==
    /\ newData # ApiError
    /\ newData.fearGreed # Null
    /\ newData.fearGreed.current.type = "number"

\* cachedData && (now - cachedData.timestamp < CACHE_DURATION)
Fresh(cachedData, now) ==
    /\ cachedData # Null
    /\ now - cachedData.timestamp < CacheDuration

defaultMetrics ==
    [gex |-> [current |-> [type |-> "null"]], dix |-> [current |-> [type |-> "null"]],
     fearGreed |-> [current |-> JsNumber(50)]]

\* a || b for objects that may be null
OrElse(a, b) == IF a # Null THEN a ELSE b

\* the metrics of the response: finalMetrics, each field with its default
ResponseMetrics(geminiMetrics) ==
    [gex |-> OrElse(OrElse(geminiMetrics, defaultMetrics).gex, defaultMetrics.gex),
     dix |-> OrElse(OrElse(geminiMetrics, defaultMetrics).dix, defaultMetrics.dix),
     fearGreed |-> OrElse(OrElse(geminiMetrics, defaultMetrics).fearGreed,
                          defaultMetrics.fearGreed)]

\* time passes
Tick ==
    /\ market.clock < MaxTicks * (CacheDuration \div 2)
    /\ market' = [market EXCEPT !.clock = @ + CacheDuration \div 2]
    /\ UNCHANGED <<component, downsampled, page, run>>

\* a GET request arrives: the handler runs up to its first await.  It reads
\* the cache file and the clock; with a fresh entry the sentiment is settled,
\* otherwise generateContent is called
Arrive ==
    /\ Len(market.requests) < MaxMarketRequests
    /\ market' = [market EXCEPT !.requests = Append(@,
           [now |-> market.clock,
            cachedData |-> market.cacheFile,
            step |-> IF Fresh(market.cacheFile, market.clock) THEN "settled" ELSE "calling",
            called |-> ~Fresh(market.cacheFile, market.clock),
            newData |-> Null,
            geminiMetrics |-> IF Fresh(market.cacheFile, market.clock)
                              THEN market.cacheFile.data
                              ELSE Null,
            response |-> Null])]
    /\ UNCHANGED <<component, downsampled, page, run>>

\* generateContent settles for request i with the answer newData; writable
\* says whether writeFileSync succeeds.  A valid answer is saved and
\* returned; a failure, an invalid answer or a failed write ends in the
\* catch block, which returns the entry read on arrival, or null
ApiSettles(i, newData, writable) ==
    /\ i \in 1..Len(market.requests)
    /\ market.requests[i].step = "calling"
    /\ market' = [market EXCEPT
           !.cacheFile = IF ValidAnswer(newData) /\ writable
                         THEN [timestamp |-> market.requests[i].now, data |-> newData]
                         ELSE @,
           !.requests[i].step = "settled",
           !.requests[i].newData = newData,
           !.requests[i].geminiMetrics =
               IF ValidAnswer(newData) /\ writable THEN newData
               ELSE IF market.requests[i].cachedData # Null
                    THEN market.requests[i].cachedData.data
                    ELSE Null]
    /\ UNCHANGED <<component, downsampled, page, run>>

\* both promises are fulfilled: the response carries the metrics
RespondMarket(i) ==
    /\ i \in 1..Len(market.requests)
    /\ market.requests[i].step = "settled"
    /\ market.requests[i].response = Null
    /\ market' = [market EXCEPT !.requests[i].response =
           [status |-> 200,
            metrics |-> ResponseMetrics(market.requests[i].geminiMetrics)]]
    /\ UNCHANGED <<component, downsampled, page, run>>

\* the VIX history is rejected: Promise.all rejects at once and the outer
\* catch answers 500, while the sentiment part runs on
VixFails(i) ==
    /\ i \in 1..Len(market.requests)
    /\ market.requests[i].response = Null
    /\ market' = [market EXCEPT !.requests[i].response =
           [status |-> 500, error |-> "Failed to fetch market data"]]
    /\ UNCHANGED <<component, downsampled, page, run>>

Next ==
    \/ \E d \in ReplayData : SearchResult(d)
    \/ \E d \in Updates(data) : RefreshData(d)
    \/ ClearStockData
    \/ \E zone \in Zones : ToggleZone(zone)
    \/ Rerender

Spec == Init /\ [][Next]_vars

\* every input of the exhaustive family, loaded by a search
NextLoad ==
    \/ \E d \in StockData : SearchResult(d)
    \/ ClearStockData

SpecLoad == Init /\ [][NextLoad]_vars

\* every input with a full rolling window, loaded by a search
NextRolling ==
    \/ \E d \in RollingData : SearchResult(d)
    \/ ClearStockData

SpecRolling == Init /\ [][NextRolling]_vars

\* every input of the exhaustive family and of the family with a full rolling
\* window, loaded by a search
NextSigma ==
    \/ \E d \in StockData \cup RollingData : SearchResult(d)
    \/ ClearStockData

SpecSigma == Init /\ [][NextSigma]_vars

\* one input, loaded by a search, under every sequence of zone toggles
NextToggle ==
    \/ \E d \in ToggleData : SearchResult(d)
    \/ \E zone \in Zones : ToggleZoneWithin(zone, MaxToggleRun)
    \/ ClearStockData

SpecToggle == Init /\ [][NextToggle]_vars

\* every input in any order of dates, loaded by a search
NextAlign ==
    \/ \E d \in AlignData : SearchResult(d)
    \/ ClearStockData

SpecAlign == Init /\ [][NextAlign]_vars

\* downsample on every array and limit, and on long arrays with the limit of
\* the charts
NextDownsample ==
    \/ \E xs \in SampleArrays, limit \in SampleLimits : CallDownsample(xs, limit)
    \/ \E xs \in ChartArrays : CallDownsample(xs, ChartLimit)

SpecDownsample == Init /\ [][NextDownsample]_vars

\* searches, range changes and auto-refreshes with their responses in any order
NextRequests ==
    \/ StartSearch
    \/ StartRangeChange
    \/ StartAutoRefresh
    \/ \E r \in page.inFlight, d \in RequestData : Respond(r, d)
    \/ \E r \in page.inFlight : Fail(r)

SpecRequests == Init /\ [][NextRequests]_vars

\* the simulation of every input of RunData under every selection, step by step
NextRun ==
    \/ \E d \in RunData, zones \in RunZones : StartRun(d, zones)
    \/ RunDividend
    \/ RunBuy
    \/ RunPoint
    \/ FinishRun

SpecRun == Init /\ [][NextRun]_vars

\* the simulation of every input of SignedData under every selection, step by
\* step
NextSigned ==
    \/ \E d \in SignedData, zones \in RunZones : StartRun(d, zones)
    \/ RunDividend
    \/ RunBuy
    \/ RunPoint
    \/ FinishRun

SpecSigned == Init /\ [][NextSigned]_vars

\* the simulation of every input of RepeatData under every selection, step by
\* step
NextRepeat ==
    \/ \E d \in RepeatData, zones \in RunZones : StartRun(d, zones)
    \/ RunDividend
    \/ RunBuy
    \/ RunPoint
    \/ FinishRun

SpecRepeat == Init /\ [][NextRepeat]_vars

\* GET requests to /api/market in any interleaving, with every answer of the
\* generative API
NextMarket ==
    \/ Tick
    \/ Arrive
    \/ \E i \in 1..MaxMarketRequests, newData \in ApiAnswers, writable \in BOOLEAN :
           ApiSettles(i, newData, writable)
    \/ \E i \in 1..MaxMarketRequests : RespondMarket(i)
    \/ \E i \in 1..MaxMarketRequests : VixFails(i)

SpecMarket == Init /\ [][NextMarket]_vars

(***************************************************************************)
(* Properties.                                                             *)
(***************************************************************************)
Loaded == data # Null

Changes == DistributionChanges(data.history)

SumCounts(dist) == SumSeq([j \in 1..Len(dist.data) |-> dist.data[j].count])

\* C1: for a history of N >= 2 samples the counts of the bins add up to N - 1:
\* every daily change is counted in one of the initialised bins
C1_Coverage ==
    (Loaded /\ Len(data.history) >= 2) =>
        SumCounts(distributionData) = Len(data.history) - 1

\* the distance of the change of day i from the mean of the distribution
DiffOf(i) == RSub(RInt(processedData[i].changePercent), distributionData.mean)

AtMost(i, k) == RatLeqSurd(DiffOf(i), k, distributionData.sd)

AtLeast(i, k) == RatGeqSurd(DiffOf(i), k, distributionData.sd)

ZoneAt(i) == simulationData.history[i].zone

Simulated == Loaded /\ simulationData # Null

\* C2: every simulated day has exactly one zone, the one of the first test that
\* matches in the order diff <= -2 sd, diff <= -1 sd, diff >= 2 sd,
\* diff >= 1 sd, otherwise "0"; a day exactly on -1 sd is "-1", a day exactly
\* on 2 sd is "2"
C2_ZonePrecedence ==
    Simulated =>
        \A i \in 1..Len(simulationData.history) :
            /\ ZoneAt(i) \in Zones
            /\ ZoneAt(i) = "-2" <=> AtMost(i, -2)
            /\ ZoneAt(i) = "-1" <=> (~AtMost(i, -2) /\ AtMost(i, -1))
            /\ ZoneAt(i) = "2" <=> (~AtMost(i, -1) /\ AtLeast(i, 2))
            /\ ZoneAt(i) = "1" <=> (~AtMost(i, -1) /\ ~AtLeast(i, 2) /\ AtLeast(i, 1))
            /\ ZoneAt(i) = "0" <=> (~AtMost(i, -1) /\ ~AtLeast(i, 1))
            /\ (AtMost(i, -1) /\ AtLeast(i, -1)) => ZoneAt(i) = "-1"
            /\ (AtMost(i, 2) /\ AtLeast(i, 2)) => ZoneAt(i) = "2"

\* a simulated day exactly one deviation below the mean, in zone "-1"
C2_Witness ==
    /\ Simulated
    /\ \E i \in 1..Len(simulationData.history) :
           AtMost(i, -1) /\ AtLeast(i, -1) /\ ZoneAt(i) = "-1"

\* C3: the simulation on display is the one a fresh run from the empty state
\* computes from the history, the dividends, the current price and the
\* selected zones, after any sequence of toggles and refreshes
C3_FreshReplay ==
    Loaded =>
        simulationData =
            Simulate(ProcessedData(data), DistributionData(data), data, selectedZones)

\* a simulation on display after a toggle changed the selection
C3_Witness ==
    /\ Simulated
    /\ toggles > 0
    /\ selectedZones # InitialZones
    /\ simulationData.totalBuys > 0

FirstBin == distributionData.data[1].bin

LastBin == distributionData.data[Len(distributionData.data)].bin

\* C4: for a history of at least 2 samples the first bin is at or below
\* mean - 2 sd and the last bin at or above mean + 2 sd
C4_MarkersSpanned ==
    (Loaded /\ Len(data.history) >= 2) =>
        /\ AtOrBelow(FirstBin, Band(distributionData.mean, -2, distributionData.sd))
        /\ AtOrBelow(-LastBin, Band(RNeg(distributionData.mean), -2, distributionData.sd))

\* a distribution whose first bin lies below the bin of every daily change
C4_Witness ==
    /\ Loaded
    /\ Len(data.history) >= 3
    /\ ~SurdIsZero(distributionData.sd)
    /\ \A i \in 1..Len(Changes) : ParseKey(ChangeKey(Changes[i])) > FirstBin

\* C5: for any order of the input history the distribution is the one of the
\* history sorted by date
C5_SortedChanges ==
    Loaded => distributionData = DistributionData([data EXCEPT !.history = SortByDate(@)])

\* C6: a history whose daily changes are all the same (sd = 0) still has a
\* simulation result
C6_ZeroDeviation ==
    (Loaded /\ Len(data.history) >= 2 /\ SurdIsZero(distributionData.sd)) =>
        simulationData # Null

\* C7: with no zone selected, a run ends with no buy, nothing invested and a
\* return of 0, and every history point has invested and both values at 0
C7_NothingSelected ==
    (Simulated /\ selectedZones = << >>) =>
        /\ simulationData.totalBuys = 0
        /\ simulationData.totalInvested = 0
        /\ simulationData.totalReturn = RInt(0)
        /\ \A i \in 1..Len(simulationData.history) :
               /\ simulationData.history[i].invested = 0
               /\ simulationData.history[i].valueReinvest = RInt(0)
               /\ simulationData.history[i].valueNoReinvest = RInt(0)

\* a run with no zone selected over a history with a dividend
C7_Witness ==
    /\ Simulated
    /\ selectedZones = << >>
    /\ data.dividends # << >>

LastPoint == simulationData.history[Len(simulationData.history)]

LastClose == processedData[Len(processedData)].close

\* the shares held at the end: the value of the last point over its close
SharesHeld == RDiv(LastPoint.valueReinvest, RInt(LastClose))

\* C8: currentValue is the shares held times the current price; totalReturn
\* is (currentValue - totalInvested) / totalInvested * 100 when totalInvested
\* is positive and 0 otherwise; no figure comes from a division by zero
C8_Summary ==
    Simulated =>
        /\ simulationData.currentValue = RMul(SharesHeld, RInt(data.currentPrice))
        /\ simulationData.totalInvested > 0 =>
               simulationData.totalReturn =
                   RMul(RDiv(RSub(simulationData.currentValue,
                                  RInt(simulationData.totalInvested)),
                             RInt(simulationData.totalInvested)), RInt(100))
        /\ simulationData.totalInvested = 0 => simulationData.totalReturn = RInt(0)
        /\ simulationData.currentValue.den > 0
        /\ simulationData.totalReturn.den > 0

\* a run that invested nothing, with a current price that is not the last close
C8_Witness ==
    /\ Simulated
    /\ simulationData.totalInvested = 0
    /\ data.currentPrice # LastClose

SpecExample == HistoryOf(<<100, 101, 99, 102>>, TRUE)

\* C9: for the closes 100, 101, 99, 102 without dividends and with the zones
\* "-2" and "-1" selected there is one buy, on the third sample (close 99,
\* zone "-1"), of 100/99 shares: totalBuys = 1 and totalInvested = 100
C9_Example ==
    (Loaded /\ data.history = SpecExample /\ data.dividends = << >>
         /\ selectedZones = InitialZones) =>
        /\ simulationData # Null
        /\ simulationData.totalBuys = 1
        /\ simulationData.totalInvested = BuyAmount
        /\ simulationData.buyDates = {3}
        /\ ZoneAt(3) = "-1"
        /\ \A i \in {1, 2, 4} : ZoneAt(i) \notin {"-2", "-1"}
        /\ simulationData.history[2].valueReinvest = RInt(0)
        /\ simulationData.history[3].valueReinvest = RMul(Rat(100, 99), RInt(99))
        /\ simulationData.history[4].valueReinvest = RMul(Rat(100, 99), RInt(102))

\* the example on display with the initial selection
C9_Witness ==
    /\ Loaded
    /\ data.history = SpecExample
    /\ data.dividends = << >>
    /\ selectedZones = InitialZones
    /\ simulationData # Null

\* the closes of the samples index - 19 .. index, for the 1-based position i
WindowCloses(i) == [j \in 1..Window |-> processedData[i - Window + j].close]

SumOfSquares(xs) == SumSeq([j \in 1..Len(xs) |-> xs[j] * xs[j]])

\* the population variance as the mean of the squares minus the squared mean
VarianceOf(xs) ==
    Surd(Big(Len(xs) * SumOfSquares(xs) - SumSeq(xs) * SumSeq(xs)), Len(xs) * Len(xs))

\* C10: below index 19 sma20, upperBand and lowerBand are null; from index 19
\* on sma20 is the mean of the 20 closes index - 19 .. index and the bands lie
\* 2 population standard deviations of those closes above and below it
C10_RollingWindow ==
    Loaded =>
        \A i \in 1..Len(processedData) :
            LET day == processedData[i]
            IN  IF i - 1 < Window - 1
                THEN day.sma20 = Null /\ day.upperBand = Null /\ day.lowerBand = Null
                ELSE /\ day.sma20 = Rat(SumSeq(WindowCloses(i)), Window)
                     /\ day.upperBand.mean = day.sma20 /\ day.upperBand.k = 2
                     /\ day.lowerBand.mean = day.sma20 /\ day.lowerBand.k = -2
                     /\ SurdSame(day.upperBand.sd, VarianceOf(WindowCloses(i)))
                     /\ SurdSame(day.lowerBand.sd, VarianceOf(WindowCloses(i)))

\* a series with bands at index 19 and after it, over closes that move
C10_Witness ==
    /\ Loaded
    /\ Len(processedData) > Window
    /\ processedData[Window - 1].sma20 = Null
    /\ ~SurdIsZero(processedData[Window].upperBand.sd)
    /\ ~SurdIsZero(processedData[Window + 1].upperBand.sd)

\* the samples of the derived days, without the derived fields
SamplesOf(days) == [i \in 1..Len(days) |-> [date |-> days[i].date, close |-> days[i].close]]

Aligned == SamplesOf(processedData)

\* the rearrangements of the positions 1..n
Rearrangements(n) == {p \in [1..n -> 1..n] : \A i, j \in 1..n : p[i] = p[j] => i = j}

Rearranged(h, p) == [i \in 1..Len(h) |-> h[p[i]]]

Ascending(h) == \A i \in 1..(Len(h) - 1) : h[i].date <= h[i + 1].date

\* p leaves the samples of one date in the order they have in h
KeepsEqualDates(h, p) ==
    \A i, j \in 1..Len(h) : (i < j /\ h[p[i]].date = h[p[j]].date) => p[i] < p[j]

DatesOf(h) == [i \in 1..Len(h) |-> h[i].date]

\* the aligned series is a rearrangement of the input, ascending by date, and
\* the input itself when the input is ascending
AlignedIsSorted ==
    /\ \E p \in Rearrangements(Len(data.history)) : Aligned = Rearranged(data.history, p)
    /\ Ascending(Aligned)
    /\ Ascending(data.history) => Aligned = data.history

\* C11: the aligned series holds the samples of the input, each as often as the
\* input, ascending by date; an ascending input is returned unchanged; every
\* rearrangement of the input is aligned to the same sequence of dates, and to
\* the same sequence of samples when it keeps the order of the samples of
\* equal date (so for every rearrangement of an input of distinct dates)
C11_Aligned ==
    Loaded =>
        /\ AlignedIsSorted
        /\ \A p \in Rearrangements(Len(data.history)) :
               /\ DatesOf(SortByDate(Rearranged(data.history, p))) = DatesOf(Aligned)
               /\ KeepsEqualDates(data.history, p) =>
                      SortByDate(Rearranged(data.history, p)) = Aligned

\* an input out of order with two samples of one date and different closes
C11_Witness ==
    /\ Loaded
    /\ ~Ascending(data.history)
    /\ Aligned # data.history
    /\ \E i, j \in 1..Len(Aligned) :
           i < j /\ Aligned[i].date = Aligned[j].date /\ Aligned[i].close # Aligned[j].close

\* C11 as stated: every rearrangement of the input is aligned to the same
\* sequence of samples
C11_AnyPermutation ==
    Loaded =>
        /\ AlignedIsSorted
        /\ \A p \in Rearrangements(Len(data.history)) :
               SortByDate(Rearranged(data.history, p)) = Aligned

Called == downsampled # Null

\* ceil(a / b) for a >= 0 and b >= 1
CeilDiv(a, b) == (a + b - 1) \div b

\* the bounds of the claim on the length of the result, and the first element
WithinLimit == Len(downsampled.result) <= downsampled.limit

AtLeastStrided ==
    Len(downsampled.data) >= 1 =>
        Len(downsampled.result) >=
            CeilDiv(Len(downsampled.data), CeilDiv(Len(downsampled.data), downsampled.limit))

FirstRetained ==
    Len(downsampled.data) >= 1 =>
        Len(downsampled.result) >= 1 /\ downsampled.result[1] = downsampled.data[1]

\* C12: for an array of any length and a limit of at least 1, downsample
\* returns at most limit elements, at least ceil(L / ceil(L / limit)) elements
\* of an array of L >= 1 elements, and the first element of a non-empty array
\* first; an empty array is returned empty
C12_DownsampleBound ==
    (Called /\ downsampled.limit >= 1) =>
        /\ WithinLimit
        /\ AtLeastStrided
        /\ FirstRetained
        /\ Len(downsampled.data) = 0 => downsampled.result = << >>

\* a call that drops elements and returns exactly limit of them
C12_Witness ==
    /\ Called
    /\ downsampled.limit >= 2
    /\ Len(downsampled.data) > downsampled.limit
    /\ Len(downsampled.result) = downsampled.limit
    /\ Len(downsampled.result) =
           CeilDiv(Len(downsampled.data), CeilDiv(Len(downsampled.data), downsampled.limit))

\* C12 as stated, for the limits that are not negative: the result has at most
\* limit elements and begins with the first element of a non-empty array
C12_AnyLimit ==
    (Called /\ downsampled.limit >= 0) =>
        /\ WithinLimit
        /\ FirstRetained
        /\ downsampled.limit >= 1 => AtLeastStrided

\* C13: for a history of no sample or one sample the derived days are one per
\* sample (none for the empty history) with sma20, upperBand and lowerBand
\* null, and the distribution has totalDays = 0, no bin, mean = 0 and sd = 0
C13_ShortHistory ==
    (Loaded /\ Len(data.history) <= 1) =>
        /\ Len(processedData) = Len(data.history)
        /\ \A i \in 1..Len(processedData) :
               /\ processedData[i].date = data.history[i].date
               /\ processedData[i].close = data.history[i].close
               /\ processedData[i].sma20 = Null
               /\ processedData[i].upperBand = Null
               /\ processedData[i].lowerBand = Null
        /\ distributionData.totalDays = 0
        /\ distributionData.data = << >>
        /\ distributionData.mean = RInt(0)
        /\ SurdIsZero(distributionData.sd)

\* a history of one sample on display, with its one derived day
C13_Witness ==
    /\ Loaded
    /\ Len(data.history) = 1
    /\ Len(processedData) = 1
    /\ distributionData.totalDays = 0

\* C14: the data on display is the answer of the newest request answered: the
\* response of a request never replaces the data of a request issued after it
C14_LatestWins ==
    (Loaded /\ page.shown # 0) => page.shown = page.answered

\* the buy step of a day has just run
BuyStepTaken == run.step = "buy" /\ run'.step = "point"

\* the day of the step that has just run, and what it buys for 100 dollars
DayBought == run.days[Len(run.st.simHistory) + 1]

SharesFor100 == Rat(100, DayBought.close)

\* what the buy step never writes
BuyStepFrame ==
    /\ run'.st.cashNoReinvest = run.st.cashNoReinvest
    /\ run'.st.totalDividendsReinvested = run.st.totalDividendsReinvested
    /\ run'.st.totalDividendsCash = run.st.totalDividendsCash
    /\ run'.st.simHistory = run.st.simHistory

\* C15: the buy step of a day whose zone is selected adds 100/close shares to
\* both policies, 100 to totalInvested, 1 to buyCount and the date of the day
\* to buyDates; the buy step of a day whose zone is not selected changes none
\* of them; in both cases it leaves the cash and the dividend totals alone
C15_BuyStep ==
    [][BuyStepTaken =>
          /\ BuyStepFrame
          /\ IF Includes(run.zones, run'.zone)
             THEN /\ run'.st.sharesReinvest = RAdd(run.st.sharesReinvest, SharesFor100)
                  /\ run'.st.sharesNoReinvest = RAdd(run.st.sharesNoReinvest, SharesFor100)
                  /\ run'.st.totalInvested = run.st.totalInvested + 100
                  /\ run'.st.buyCount = run.st.buyCount + 1
                  /\ run'.st.buyDates = run.st.buyDates \cup {DayBought.date}
             ELSE /\ run'.st.sharesReinvest = run.st.sharesReinvest
                  /\ run'.st.sharesNoReinvest = run.st.sharesNoReinvest
                  /\ run'.st.totalInvested = run.st.totalInvested
                  /\ run'.st.buyCount = run.st.buyCount
                  /\ run'.st.buyDates = run.st.buyDates]_vars

\* after the buy step of a day: a second buy, at a close other than the first,
\* by a run that also passed a day without a buy
C15_Witness ==
    /\ run.step = "point"
    /\ Includes(run.zones, run.zone)
    /\ run.st.buyCount = 2
    /\ Len(run.st.simHistory) >= 2
    /\ run.st.sharesReinvest # Rat(200, run.days[Len(run.st.simHistory) + 1].close)

\* the dividend step of a day has just run
DividendStepTaken == run.step = "dividend" /\ run'.step = "buy"

\* the day of the step, and the amounts of the dividend events on its date
DayPaid == run.days[Len(run.st.simHistory) + 1]

AmountsOn(date) ==
    {run.dividends[i].amount : i \in {j \in 1..Len(run.dividends) : run.dividends[j].date = date}}

\* the shares of the two policies at the end of the previous day, from its
\* history point: value / close, and (value - cash) / close
PreviousClose == run.days[Len(run.st.simHistory)].close

PreviousPoint == run.st.simHistory[Len(run.st.simHistory)]

SharesReinvestBefore ==
    IF run.st.simHistory = << >> THEN RInt(0)
    ELSE RDiv(PreviousPoint.valueReinvest, RInt(PreviousClose))

SharesNoReinvestBefore ==
    IF run.st.simHistory = << >> THEN RInt(0)
    ELSE RDiv(RSub(PreviousPoint.valueNoReinvest, run.st.cashNoReinvest), RInt(PreviousClose))

\* C16: the dividend step of a day runs before its buy step, on the shares held
\* at the end of the previous day.  With a dividend event on the date of the
\* day, the reinvest policy gains shares * amount / close shares and the share
\* count of the cash policy stays, while the cash of the cash policy grows by
\* shares * amount; with no event on that date shares and cash stay as they are
C16_DividendStep ==
    [][DividendStepTaken =>
          /\ run.st.sharesReinvest = SharesReinvestBefore
          /\ run.st.sharesNoReinvest = SharesNoReinvestBefore
          /\ run'.st.sharesNoReinvest = run.st.sharesNoReinvest
          /\ run'.st.totalInvested = run.st.totalInvested
          /\ run'.st.buyCount = run.st.buyCount
          /\ IF AmountsOn(DayPaid.date) = {}
             THEN /\ run'.st.sharesReinvest = run.st.sharesReinvest
                  /\ run'.st.cashNoReinvest = run.st.cashNoReinvest
             ELSE \E amount \in AmountsOn(DayPaid.date) :
                    /\ run'.st.sharesReinvest =
                           RAdd(SharesReinvestBefore,
                                RDiv(RMul(SharesReinvestBefore, RInt(amount)),
                                     RInt(DayPaid.close)))
                    /\ run'.st.cashNoReinvest =
                           RAdd(run.st.cashNoReinvest,
                                RMul(SharesNoReinvestBefore, RInt(amount)))]_vars

\* after the dividend step of a day with a dividend, paid on shares bought
\* before: the cash policy holds cash, the reinvest policy more shares
C16_Witness ==
    /\ run.step = "buy"
    /\ AmountsOn(run.days[Len(run.st.simHistory) + 1].date) # {}
    /\ RPos(run.st.cashNoReinvest)
    /\ RPos(RSub(run.st.sharesReinvest, run.st.sharesNoReinvest))

\* the history point of a day has just been emitted
PointEmitted == run.step = "point" /\ run'.step = "dividend"

DayEmitted == run.days[Len(run.st.simHistory) + 1]

NewPoint == run'.st.simHistory[Len(run'.st.simHistory)]

\* the run as the component computes it in one piece
RunInOnePiece ==
    Simulate(run.days, [mean |-> run.mean, sd |-> run.sigma],
             [dividends |-> run.dividends, currentPrice |-> run.currentPrice], run.zones)

\* C17: a run emits one history point per derived day, in the order of the
\* days: each point is appended after the dividend step and the buy step of
\* its day and carries the date of the day, invested = totalInvested,
\* valueReinvest = sharesReinvest * close and valueNoReinvest =
\* sharesNoReinvest * close + cashNoReinvest of that moment; the finished run
\* has as many points as days and is the result the component computes
C17_OnePointPerDay ==
    [][/\ PointEmitted =>
             /\ Len(run'.st.simHistory) = Len(run.st.simHistory) + 1
             /\ SubSeq(run'.st.simHistory, 1, Len(run.st.simHistory)) = run.st.simHistory
             /\ NewPoint.date = DayEmitted.date
             /\ NewPoint.invested = run.st.totalInvested
             /\ NewPoint.valueReinvest = RMul(run.st.sharesReinvest, RInt(DayEmitted.close))
             /\ NewPoint.valueNoReinvest =
                    RAdd(RMul(run.st.sharesNoReinvest, RInt(DayEmitted.close)),
                         run.st.cashNoReinvest)
             /\ [run'.st EXCEPT !.simHistory = run.st.simHistory] = run.st
       /\ (run.step # "point" /\ run'.step # "idle") =>
             run'.st.simHistory = IF run.step = "idle" THEN << >> ELSE run.st.simHistory
       /\ run'.step = "done" =>
             /\ Len(run'.result.history) = Len(run'.days)
             /\ \A i \in 1..Len(run'.days) : run'.result.history[i].date = run'.days[i].date
             /\ run'.result = RunInOnePiece]_vars

\* a finished run of four days that bought shares and was paid a dividend in cash
C17_Witness ==
    /\ run.step = "done"
    /\ Len(run.result.history) = 4
    /\ RPos(run.st.cashNoReinvest)
    /\ run.result.history[4].valueNoReinvest # run.result.history[4].valueReinvest

\* the daily changes whose bin is the bin of the change at position i
SameBin(i) ==
    {j \in 1..Len(Changes) : ChangeKey(Changes[j]) = ChangeKey(Changes[i])}

\* C18: every daily change appears in the output: the bins hold a bin of its
\* key that counts it, also when the key is not among the initialised bins
C18_FallbackBin ==
    (Loaded /\ Len(data.history) >= 2) =>
        \A i \in 1..Len(Changes) :
            \E j \in 1..Len(distributionData.data) :
                /\ distributionData.data[j].bin = ParseKey(ChangeKey(Changes[i]))
                /\ distributionData.data[j].count >= Cardinality(SameBin(i))

\* the changes between the consecutive samples index - 19 .. index, for the
\* 1-based position i
WindowChanges(i) ==
    [j \in 1..(Window - 1) |->
        ChangePercent(processedData[i - Window + j + 1].close,
                      processedData[i - Window + j].close)]

\* the population variance of xs: (n * sum of squares - square of the sum) / n^2
BigVarianceOf(xs) ==
    Surd(BigSub(BigMul(Big(Len(xs)), BigSumSeq([j \in 1..Len(xs) |-> BigSq(Big(xs[j]))])),
                BigSq(Big(SumSeq(xs)))),
         Len(xs) * Len(xs))

\* C19: rollingSD is a number on every derived day: the number 0 below index
\* 19, where no window is complete, and from index 19 on the population
\* standard deviation of the 19 changes between the samples index - 19 .. index
C19_RollingSD ==
    Loaded =>
        \A i \in 1..Len(processedData) :
            /\ processedData[i].rollingSD # Null
            /\ IF i - 1 < Window - 1
               THEN SurdIsZero(processedData[i].rollingSD)
               ELSE SurdSame(processedData[i].rollingSD, BigVarianceOf(WindowChanges(i)))

\* a series with days below index 19 and two days from index 19 on, with a
\* rolling deviation that is not 0
C19_Witness ==
    /\ Loaded
    /\ Len(processedData) > Window
    /\ SurdIsZero(processedData[Window - 1].rollingSD)
    /\ ~SurdIsZero(processedData[Window].rollingSD)
    /\ ~SurdSame(processedData[Window].rollingSD, processedData[Window + 1].rollingSD)

\* C19 as stated: rollingSD is null below index 19 and defined from index 19 on
C19_NullBelowWindow ==
    Loaded =>
        \A i \in 1..Len(processedData) :
            IF i - 1 < Window - 1
            THEN processedData[i].rollingSD = Null
            ELSE processedData[i].rollingSD # Null

\* (close[i] - close[i-1]) / close[i-1] * 100 between the consecutive samples of
\* a series, as the fraction it is, in percent
ChangeBetween(series, i) ==
    Rat((series[i].close - series[i - 1].close) * 100, series[i - 1].close)

\* a change of the model, counted in units of 100/PriceLcm percent, in percent
InPercent(change) == Rat(change * 100, PriceLcm)

\* the N - 1 changes of the series the distribution is built from
Population == [i \in 1..(Len(data.history) - 1) |-> Changes[i]]

InBin(c, t) ==
    /\ t * PriceLcm <= c * 100 * BinsPerPercent
    /\ c * 100 * BinsPerPercent < (t + 1) * PriceLcm

\* C21: every bin of the output counts exactly the daily changes c with
\* b <= c < b + 0.1 for its key b: each change is counted once, in the bin of
\* floor(c / 0.1) * 0.1, also a negative change and a change on a bin edge
C21_BinAssignment ==
    (Loaded /\ Len(data.history) >= 2) =>
        \A j \in 1..Len(distributionData.data) :
            distributionData.data[j].count =
                Cardinality({i \in 1..Len(Changes) :
                                 InBin(Changes[i], distributionData.data[j].bin)})

\* the values the axis covers: the daily changes and the five sigma markers
AxisValues ==
    {WithSd(Val(Changes[i]), distributionData.sd) : i \in 1..Len(Changes)}
        \cup {Band(distributionData.mean, k, distributionData.sd) : k \in -2..2}

\* t <= v / 0.1 and t >= v / 0.1, for a bin t and a value v of the axis
BinAtOrBelow(t, v) == AtOrBelow(t, v)

BinAtOrAbove(t, v) == AtOrBelow(-t, Band(RNeg(v.mean), -v.k, v.sd))

\* C22: for a history of at least 2 samples the rows of the output are strictly
\* ascending in their key, each key one bin (0.1) above the key before it, with
\* no gap and no key twice; the first key is the lowest value of the axis
\* floored to a multiple of 0.1 and the last key the highest value ceiled to
\* one; every count is a natural number, and the bins that count nothing are
\* among the rows
C22_BinsContiguous ==
    (Loaded /\ Len(data.history) >= 2) =>
        /\ Len(distributionData.data) >= 1
        /\ \A j \in 1..Len(distributionData.data) :
               /\ distributionData.data[j].bin \in Int
               /\ distributionData.data[j].count \in Nat
        /\ \A j \in 1..(Len(distributionData.data) - 1) :
               distributionData.data[j + 1].bin = distributionData.data[j].bin + 1
        /\ \A v \in AxisValues : BinAtOrBelow(FirstBin, v) /\ BinAtOrAbove(LastBin, v)
        /\ \E v \in AxisValues : ~BinAtOrBelow(FirstBin + 1, v)
        /\ \E v \in AxisValues : ~BinAtOrAbove(LastBin - 1, v)

\* a distribution with bins below and above zero and an empty bin between two
\* bins that count a change
C22_Witness ==
    /\ Loaded
    /\ Len(data.history) >= 3
    /\ FirstBin < 0
    /\ LastBin > 0
    /\ \E i, j, k \in 1..Len(distributionData.data) :
           /\ i < j /\ j < k
           /\ distributionData.data[i].count > 0
           /\ distributionData.data[j].count = 0
           /\ distributionData.data[k].count > 0

\* the squared distance of the change at position i from the mean, and k * k
\* times the variance, both times n^3: |c - mean| <= k * sd compares them.
\* With n changes of sum S, c - mean = (n * c - S) / n and the variance is
\* the sum of the (n * c - S)^2 over n^3
SquaredDistance(i) ==
    BigMul(Big(Len(Changes)), BigSq(Big(Len(Changes) * Changes[i] - SumSeq(Changes))))

SquaredDeviations(k) ==
    BigMul(Big(k * k),
           BigSumSeq([j \in 1..Len(Changes) |->
                         BigSq(Big(Len(Changes) * Changes[j] - SumSeq(Changes)))]))

WithinSigmas(k) == {i \in 1..Len(Changes) : BigLeq(SquaredDistance(i), SquaredDeviations(k))}

\* C23: count1Sigma is the number of daily changes with |change - mean| <= sd
\* and count2Sigma the number with |change - mean| <= 2 * sd, a change exactly
\* on the boundary included; 0 <= count1Sigma <= count2Sigma <= totalDays for
\* every history, with all three 0 for a history of fewer than 2 samples
C23_SigmaCounts ==
    Loaded =>
        /\ 0 <= distributionData.count1Sigma
        /\ distributionData.count1Sigma <= distributionData.count2Sigma
        /\ distributionData.count2Sigma <= distributionData.totalDays
        /\ IF Len(data.history) < 2
           THEN distributionData.totalDays = 0
           ELSE /\ distributionData.totalDays = Len(Changes)
                /\ distributionData.count1Sigma = Cardinality(WithinSigmas(1))
                /\ distributionData.count2Sigma = Cardinality(WithinSigmas(2))

\* a distribution with changes within one deviation, changes between one and
\* two, and changes beyond two
C23_Witness ==
    /\ Loaded
    /\ Len(data.history) >= 2
    /\ 0 < distributionData.count1Sigma
    /\ distributionData.count1Sigma < distributionData.count2Sigma
    /\ distributionData.count2Sigma < distributionData.totalDays

\* C24: for a limit that is a point budget (0 or more), downsample returns the
\* array itself when its length is at most the limit; otherwise, with
\* step = ceil(length / limit), the result is the elements at the indices 0,
\* step, 2 * step, ... below the length, each once, in the order of the array
\* and as they are in the array; for the limit 0 the step is Infinity and the
\* result is the element at index 0 alone
C24_DownsampleElements ==
    (Called /\ downsampled.limit >= 0) =>
        IF Len(downsampled.data) <= downsampled.limit
        THEN downsampled.result = downsampled.data
        ELSE IF downsampled.limit = 0
        THEN downsampled.result = <<downsampled.data[1]>>
        ELSE /\ Len(downsampled.result) =
                    CeilDiv(Len(downsampled.data),
                            CeilDiv(Len(downsampled.data), downsampled.limit))
             /\ \A j \in 1..Len(downsampled.result) :
                    downsampled.result[j] =
                        downsampled.data[(j - 1) * CeilDiv(Len(downsampled.data),
                                                           downsampled.limit) + 1]

\* a call with a step of 3 or more that keeps at least 3 elements and drops
\* the last element of the array
C24_Witness ==
    /\ Called
    /\ downsampled.limit >= 2
    /\ Len(downsampled.data) > downsampled.limit
    /\ CeilDiv(Len(downsampled.data), downsampled.limit) >= 3
    /\ Len(downsampled.result) >= 3
    /\ downsampled.result[Len(downsampled.result)] # downsampled.data[Len(downsampled.data)]

Running == run.step # "idle"

\* the invested field of the history points emitted so far, after a 0 for the
\* start of the run
InvestedSoFar == <<0>> \o [i \in 1..Len(run.st.simHistory) |-> run.st.simHistory[i].invested]

\* the days of the run whose zone is in the selection
DaysSelected ==
    {i \in 1..Len(run.days) :
        Includes(run.zones, ZoneOf(RSub(RInt(run.days[i].changePercent), run.mean), run.sigma))}

\* C25: at every step of a run totalInvested = 100 * buyCount; the invested
\* field of the history points starts at 0 or 100 and rises by 0 or by 100 from
\* one point to the next; the totalBuys of the finished run is the number of
\* days whose zone is in the selection, and its totalInvested 100 times that
C25_InvestedPerBuy ==
    Running =>
        /\ run.st.totalInvested = 100 * run.st.buyCount
        /\ \A i \in 1..(Len(InvestedSoFar) - 1) :
               InvestedSoFar[i + 1] - InvestedSoFar[i] \in {0, 100}
        /\ run.step = "done" =>
               /\ run.result.totalBuys = Cardinality(DaysSelected)
               /\ run.result.totalInvested = 100 * Cardinality(DaysSelected)

\* a finished run with days that bought and days that did not
C25_Witness ==
    /\ run.step = "done"
    /\ run.result.totalBuys >= 2
    /\ run.result.totalBuys < Len(run.days)
    /\ run.result.history[1].invested = 0
    /\ run.result.history[Len(run.days)].invested = 100 * run.result.totalBuys

\* x <= y, for two fractions
RLeq(x, y) == RSub(y, x).num >= 0

\* C26: in a run over positive closes with dividend amounts of either sign, at
\* every step sharesReinvest >= sharesNoReinvest >= 0 and cashNoReinvest >= 0,
\* and no step of the run lowers sharesReinvest, sharesNoReinvest or
\* cashNoReinvest: they never decrease within a day or from one day to the next
C26_NeverDecreasing ==
    [][run'.step # "idle" =>
          /\ RLeq(run'.st.sharesNoReinvest, run'.st.sharesReinvest)
          /\ RLeq(RInt(0), run'.st.sharesNoReinvest)
          /\ RLeq(RInt(0), run'.st.cashNoReinvest)
          /\ run.step # "idle" =>
                 /\ RLeq(run.st.sharesReinvest, run'.st.sharesReinvest)
                 /\ RLeq(run.st.sharesNoReinvest, run'.st.sharesNoReinvest)
                 /\ RLeq(run.st.cashNoReinvest, run'.st.cashNoReinvest)]_vars

\* after the dividend step of a day with an amount below zero, in a run that
\* holds shares and was paid a dividend before
C26_Witness ==
    /\ run.step = "buy"
    /\ run.days[Len(run.st.simHistory) + 1].date \in DOMAIN run.dividendMap
    /\ run.dividendMap[run.days[Len(run.st.simHistory) + 1].date] < 0
    /\ RPos(run.st.sharesNoReinvest)
    /\ RPos(run.st.cashNoReinvest)
    /\ RPos(RSub(run.st.sharesReinvest, run.st.sharesNoReinvest))

\* how often the zone was toggled since the hooks were mounted
TimesToggled(log, zone) == Cardinality({i \in 1..Len(log) : log[i] = zone})

\* the zones selected after the toggles of the log: in the initial selection
\* or toggled an odd number of times, and not both
SelectionAfter(log) ==
    {zone \in Zones : (zone \in {"-2", "-1"}) # (TimesToggled(log, zone) % 2 = 1)}

SelectedSet == {selectedZones[i] : i \in 1..Len(selectedZones)}

\* the zones of a set, in some order
AnyOrder(S) == CHOOSE q \in [1..Cardinality(S) -> S] : \A zone \in S : \E i \in DOMAIN q : q[i] = zone

\* the last two toggles were of one zone
ToggledTwice == Len(toggled) >= 2 /\ toggled[Len(toggled)] = toggled[Len(toggled) - 1]

\* C27: after any sequence of toggleZone calls on the initial selection,
\* selectedZones holds no label twice and holds a zone exactly when the zone is
\* in the initial selection or was toggled an odd number of times, and not
\* both; after two toggles of one zone in a row the zones selected are the
\* zones selected before the two, and the simulation is the one of that
\* selection
C27_ToggleParity ==
    /\ \A i, j \in 1..Len(selectedZones) : selectedZones[i] = selectedZones[j] => i = j
    /\ SelectedSet = SelectionAfter(toggled)
    /\ ToggledTwice =>
           /\ SelectedSet = SelectionAfter(SubSeq(toggled, 1, Len(toggled) - 2))
           /\ simulationData =
                  Simulate(processedData, distributionData, data,
                           AnyOrder(SelectionAfter(SubSeq(toggled, 1, Len(toggled) - 2))))

\* a zone of the selection toggled twice in a row after another toggle: the
\* zone is selected again, now at the end of the list, and the run buys
C27_Witness ==
    /\ Simulated
    /\ Len(toggled) >= 3
    /\ ToggledTwice
    /\ toggled[Len(toggled) - 2] # toggled[Len(toggled)]
    /\ selectedZones[Len(selectedZones)] = toggled[Len(toggled)]
    /\ selectedZones[Len(selectedZones)] \in {"-2", "-1"}
    /\ simulationData.totalBuys > 0

\* the first day of the run has its history point
DayZeroDone == Running /\ Len(run.st.simHistory) >= 1

\* the zone of diff = 0 - mean
ZoneOfDayZero == ZoneOf(RNeg(run.mean), run.sigma)

\* -sd < -mean < sd
MeanWithinSigma ==
    /\ ~RatLeqSurd(RNeg(run.mean), -1, run.sigma)
    /\ ~RatGeqSurd(RNeg(run.mean), 1, run.sigma)

\* C28: the first day of a run has changePercent = 0 and is classified like
\* every other day, with diff = -mean: its history point has invested = 100
\* and a value of 100 when the zone of -mean is in the selection, and 0
\* otherwise; with "0" selected and |mean| < sd the first day is a buy day
C28_DayZeroClassified ==
    DayZeroDone =>
        /\ run.days[1].changePercent = 0
        /\ run.st.simHistory[1].zone = ZoneOfDayZero
        /\ IF Includes(run.zones, ZoneOfDayZero)
           THEN /\ run.st.simHistory[1].invested = 100
                /\ run.st.simHistory[1].valueReinvest = RInt(100)
                /\ run.days[1].date \in run.st.buyDates
           ELSE /\ run.st.simHistory[1].invested = 0
                /\ run.st.simHistory[1].valueReinvest = RInt(0)
        /\ (Includes(run.zones, "0") /\ MeanWithinSigma) =>
               run.st.simHistory[1].invested = 100

\* a finished run with "0" alone selected and |mean| < sd that bought on its
\* first day
C28_Witness ==
    /\ run.step = "done"
    /\ run.zones = <<"0">>
    /\ MeanWithinSigma
    /\ run.mean # RInt(0)
    /\ run.result.history[1].invested = 100
    /\ run.days[1].date \in run.result.buyDates

\* the positions of the dividend events of a date, and the amount of the last
EventsOn(date) == {j \in 1..Len(run.dividends) : run.dividends[j].date = date}

LastAmountOn(date) ==
    run.dividends[CHOOSE j \in EventsOn(date) : \A k \in EventsOn(date) : k <= j].amount

RECURSIVE RSumOver(_, _)
RSumOver(f, S) ==
    IF S = {} THEN RInt(0)
    ELSE LET x == CHOOSE y \in S : TRUE
         IN  RAdd(f[x], RSumOver(f, S \ {x}))

\* the shares the cash policy holds before day i: 100 / close for every
\* earlier day whose zone is selected
SharesBoughtBefore(days, selected, i) ==
    RSumOver([k \in 1..Len(days) |-> Rat(100, days[k].close)], {k \in selected : k < i})

\* the cash of a finished run with one payment per sample of a date with
\* events, each of the last amount of the date on the shares held before it
CashPaidPerSample(days, selected) ==
    RSumOver([i \in 1..Len(days) |->
                 IF EventsOn(days[i].date) = {} THEN RInt(0)
                 ELSE RMul(SharesBoughtBefore(days, selected, i),
                           RInt(LastAmountOn(days[i].date)))],
             1..Len(days))

\* C29: with several dividend events on one date, the dividend step of a
\* sample of that date pays the amount of the last of them in input order,
\* neither an earlier amount nor their sum; with several price samples on one
\* date the step pays at every one of them, on the shares held before it: the
\* cash of the finished run is the sum of one payment per sample
C29_LastEventPerSample ==
    /\ [][DividendStepTaken =>
             IF EventsOn(DayPaid.date) = {}
             THEN /\ run'.st.sharesReinvest = run.st.sharesReinvest
                  /\ run'.st.cashNoReinvest = run.st.cashNoReinvest
             ELSE /\ run'.st.sharesReinvest =
                         RAdd(run.st.sharesReinvest,
                              RDiv(RMul(run.st.sharesReinvest,
                                        RInt(LastAmountOn(DayPaid.date))),
                                   RInt(DayPaid.close)))
                  /\ run'.st.cashNoReinvest =
                         RAdd(run.st.cashNoReinvest,
                              RMul(run.st.sharesNoReinvest, RInt(LastAmountOn(DayPaid.date))))
                  /\ run'.st.totalDividendsCash =
                         RAdd(run.st.totalDividendsCash,
                              RMul(run.st.sharesNoReinvest,
                                   RInt(LastAmountOn(DayPaid.date))))]_vars
    /\ [](run.step = "done" =>
             /\ run.st.cashNoReinvest = CashPaidPerSample(run.days, DaysSelected)
             /\ run.st.totalDividendsCash = run.st.cashNoReinvest)

\* a finished run over two samples of one date with two events of different
\* amounts on that date, paid at both samples on shares bought before
C29_Witness ==
    /\ run.step = "done"
    /\ \E i \in 2..(Len(run.days) - 1) :
           /\ run.days[i].date = run.days[i + 1].date
           /\ Cardinality(EventsOn(run.days[i].date)) >= 2
           /\ \E j \in EventsOn(run.days[i].date) :
                  run.dividends[j].amount # LastAmountOn(run.days[i].date)
           /\ LastAmountOn(run.days[i].date) > 0
           /\ RPos(SharesBoughtBefore(run.days, DaysSelected, i))
           /\ RPos(RSub(run.st.cashNoReinvest,
                        RMul(SharesBoughtBefore(run.days, DaysSelected, i + 1),
                             RInt(LastAmountOn(run.days[i].date)))))

\* the parsed answer d carries a number as its fear and greed score
ScoreIsNumber(d) ==
    /\ d # ApiError
    /\ d.fearGreed # Null
    /\ d.fearGreed.current.type = "number"

\* request i of the market route, before and after a step
Before(i) == market.requests[i]

After(i) == market'.requests[i]

\* request i leaves the call of the generative API in this step
ApiReturnsTo(i) == Before(i).step = "calling" /\ After(i).step = "settled"

\* the request that arrives in this step
Arrived == market'.requests[Len(market'.requests)]

\* C30: in the /api/market handler with the cache, over every interleaving
\* of GET requests: (a) the cache file changes only when a call of the
\* generative API returns an answer whose fearGreed.current is a number, and
\* it then holds that answer with the arrival time of the request; (b) a
\* request reads the cache file on arrival, and when the entry is less than
\* 12 hours old it does not call the generative API and its sentiment is the
\* cached data; (c) when the call fails or answers without a number as the
\* score, the cache file is left as it is and a request that read an entry
\* gets that entry's data; (d) the sentiment is null, and the response then
\* carries the default score 50, only for a request that read no entry.
C30_CacheProtocol ==
    /\ [][/\ market'.cacheFile # market.cacheFile =>
                 \E i \in 1..Len(market.requests) :
                     /\ ApiReturnsTo(i)
                     /\ ScoreIsNumber(After(i).newData)
                     /\ market'.cacheFile =
                            [timestamp |-> Before(i).now, data |-> After(i).newData]
          /\ Len(market'.requests) > Len(market.requests) =>
                 /\ Arrived.cachedData = market.cacheFile
                 /\ Arrived.now = market.clock
                 /\ (/\ market.cacheFile # Null
                     /\ market.clock - market.cacheFile.timestamp < CacheDuration) =>
                        /\ ~Arrived.called
                        /\ Arrived.step = "settled"
                        /\ Arrived.geminiMetrics = market.cacheFile.data
          /\ \A i \in 1..Len(market.requests) :
                 (ApiReturnsTo(i) /\ ~ScoreIsNumber(After(i).newData)) =>
                     /\ market'.cacheFile = market.cacheFile
                     /\ Before(i).cachedData # Null =>
                            After(i).geminiMetrics = Before(i).cachedData.data
         ]_vars
    /\ [](\A i \in 1..Len(market.requests) :
             /\ ~Before(i).called =>
                    /\ Before(i).newData = Null
                    /\ Before(i).geminiMetrics = Before(i).cachedData.data
             /\ (Before(i).step = "settled" /\ Before(i).geminiMetrics = Null) =>
                    Before(i).cachedData = Null
             /\ (Before(i).response # Null /\ Before(i).response.status = 200) =>
                    /\ Before(i).response.metrics.fearGreed = defaultMetrics.fearGreed
                           <=> Before(i).geminiMetrics = Null
                    /\ Before(i).geminiMetrics # Null =>
                           Before(i).response.metrics.fearGreed =
                               Before(i).geminiMetrics.fearGreed)

\* Two requests have been answered with status 200: the first found no
\* cache, got an answer with a score and saved it; the second arrived 12
\* hours later or more, read that entry, called the generative API without
\* getting a score, and was served the data of the entry, which is still in
\* the file.
C30_Witness ==
    /\ Len(market.requests) = 2
    /\ \A i \in 1..2 : Before(i).response # Null /\ Before(i).response.status = 200
    /\ Before(1).cachedData = Null /\ ScoreIsNumber(Before(1).newData)
    /\ market.cacheFile = [timestamp |-> Before(1).now, data |-> Before(1).newData]
    /\ Before(2).cachedData = market.cacheFile /\ Before(2).called
    /\ Before(2).now - Before(1).now >= CacheDuration
    /\ Before(2).step = "settled" /\ ~ScoreIsNumber(Before(2).newData)
    /\ Before(2).geminiMetrics = market.cacheFile.data
    /\ Before(2).response.metrics.fearGreed = market.cacheFile.data.fearGreed

====
